---- MODULE Spec2Model ----
(***************************************************************************)
(* Model of the myGlyfada issue-tracking backend: the relational store     *)
(* (users, categories, subcategories, issues, photos, comments), the blob  *)
(* store of uploaded files, and the request handlers that read and write   *)
(* them.  Each handler is one action; uploadPhotos, whose awaits the       *)
(* concurrency claims are about, is split at its awaits.                   *)
(***************************************************************************)
EXTENDS Integers, Sequences, FiniteSets, TLC

(***************************************************************************)
(* Bounds of the model.                                                    *)
(***************************************************************************)
MaxIssues == 1        \* issue ids handed out by the lifecycle specification
MaxClock == 2         \* last instant the clock reaches
MaxUploads == 2       \* uploadPhotos requests started in one behaviour
MaxUnlinkFailures == 1 \* files whose unlinkSync throws in one cleanup
MaxFieldIssues == 1   \* issue ids handed out by the field specification
MaxAccessIssues == 2  \* issues of the access specification
MaxPhotoIssues == 1   \* issues of the photo specification
MaxDeleteIssues == 1  \* issues of the delete specification
MaxGalleryIssues == 1 \* issues of the photo access specification
MaxCategoryIssues == 1 \* issues of the category specification
MaxAuthIssues == 1    \* issues of the authentication specification
MaxExcelIssues == 2   \* issues of the spreadsheet specification
MaxImportIssues == 3  \* last issue id an import of the import specification may start at

(***************************************************************************)
(* Enumerations of the schema.                                             *)
(***************************************************************************)
UserRole == {"ADMIN", "SUPERVISOR", "USER", "OFFICE"}
IssueStatus == {"PENDING", "IN_PROGRESS", "COMPLETED", "REJECTED", "CANCELLED"}
IssuePriority == {"LOW", "MEDIUM", "HIGH", "EMERGENCY"}

\* A nullable column holds <<>> (null) or <<v>>; a nullable id holds Null.
None == <<>>
Some(v) == <<v>>
Null == "null"

\* A text column holds a string; Chars gives its characters.
Chars(text) ==
    CASE text = "" -> << >>
      [] text = "Road" -> <<"R", "o", "a", "d">>
      [] text = "Lamp" -> <<"L", "a", "m", "p">>
      [] text = "bad" -> <<"b", "a", "d">>
      [] text = "broken road" -> <<"b", "r", "o", "k", "e", "n", " ", "r", "o", "a", "d">>
      [] text = "Main" -> <<"M", "a", "i", "n">>
      [] text = "park" -> <<"p", "a", "r", "k">>
      [] text = "Roads" -> <<"R", "o", "a", "d", "s">>
      [] text = "Light" -> <<"L", "i", "g", "h", "t">>
      [] text = "Water" -> <<"W", "a", "t", "e", "r">>
      [] text = "r" -> <<"r">>
      [] text = "LA" -> <<"L", "A">>
      [] text = "gly" -> <<"g", "l", "y">>
      [] text = "zz" -> <<"z", "z">>

TextLen(text) == Len(Chars(text))

Lower(ch) ==
    CASE ch = "R" -> "r"
      [] ch = "L" -> "l"
      [] ch = "G" -> "g"
      [] ch = "Y" -> "y"
      [] ch = "A" -> "a"
      [] ch = "M" -> "m"
      [] ch = "I" -> "i"
      [] ch = "P" -> "p"
      [] ch = "W" -> "w"
      [] OTHER -> ch

\* Prisma's { contains: term, mode: 'insensitive' } on character sequences.
Contains(text, term) ==
    \E k \in 0..(Len(text) - Len(term)) :
        \A j \in 1..Len(term) : Lower(text[k + j]) = Lower(term[j])

Digit == <<"1", "2", "3", "4", "5", "6", "7", "8", "9">>

TitleRoad == "Road"
TitleLamp == "Lamp"
DescriptionOk == "broken road"
DescriptionShort == "bad"
AddressOk == "Main"
AddressPark == "park"

MinDescriptionLen == 10

VARIABLES users, categories, subcategories, issues, photos, comments,
          blobs, uploads, nextIssue, nextUpload, now, res,
          history,  \* what the database no longer shows: the reference
                    \* numbers of deleted issues, the users ever deactivated
          pending   \* the requests between two awaits of their handler

vars == <<users, categories, subcategories, issues, photos, comments,
          blobs, uploads, nextIssue, nextUpload, now, res, history, pending>>

(***************************************************************************)
(* The database after migration and seeding of users and reference data,   *)
(* with a second citizen registered.                                       *)
(***************************************************************************)
SeedUsers ==
    [u \in {"a1", "s1", "o1", "u1", "u2"} |->
        [role |-> CASE u = "a1" -> "ADMIN"
                    [] u = "s1" -> "SUPERVISOR"
                    [] u = "o1" -> "OFFICE"
                    [] OTHER -> "USER",
         username |-> u,
         isActive |-> TRUE]]

SeedCategories ==
    [c \in {"c1", "c2"} |->
        [name |-> IF c = "c1" THEN "Roads" ELSE "Light",
         isActive |-> TRUE]]

SeedSubcategories ==
    [s \in {"sc1", "sc2", "sc3"} |->
        [name |-> CASE s = "sc1" -> "Pothole"
                    [] s = "sc2" -> "Bulb"
                    [] OTHER -> "Sidewalk",
         categoryId |-> IF s = "sc2" THEN "c2" ELSE "c1",
         estimatedDays |-> IF s = "sc1" THEN Some(7) ELSE Some(3),
         isActive |-> TRUE]]

NoResponse == [op |-> "none", user |-> Null, id |-> 0, req |-> <<>>, code |-> 0, data |-> <<>>]

\* The request that was answered (operation, caller, :id, body or query)
\* and the answer (status code, data).
Response(op, user, id, req, code, data) ==
    [op |-> op, user |-> user, id |-> id, req |-> req, code |-> code, data |-> data]

Init ==
    /\ users = SeedUsers
    /\ categories = SeedCategories
    /\ subcategories = SeedSubcategories
    /\ issues = << >>
    /\ photos = {}
    /\ comments = {}
    /\ blobs = {}
    /\ uploads = << >>
    /\ nextIssue = 1
    /\ nextUpload = 1
    /\ now = 1
    /\ res = NoResponse
    /\ history = [retired |-> {}, deactivated |-> {}]
    /\ pending = {}

(***************************************************************************)
(* Middleware.                                                             *)
(***************************************************************************)
\* A bearer token is None (no Authorization header) or a record of the user
\* id it carries and whether its signature and expiry verify.
verifyToken(token) == token.signed

\* decoded.userId, or Null when there is no token or verifyToken throws.
Bearer(token) ==
    IF token = None THEN Null
    ELSE IF ~verifyToken(token) THEN Null
    ELSE token.userId

\* Mutant: the isActive column is not looked at.
authenticate_IgnoresActive(c) == c \in DOMAIN users

\* authenticate: the token's user exists and is active.  c is the user id
\* the request's token decodes to.
authenticate(c) == c \in DOMAIN users /\ users[c].isActive

\* Mutant: every authenticated caller passes.
authorize_Anyone(allowedRoles, c) == TRUE

\* Mutant: every role but USER passes.
authorize_StaffToo(allowedRoles, c) == users[c].role # "USER"

\* authorize(allowedRoles)
authorize(allowedRoles, c) == users[c].role \in allowedRoles

Has(body, k) == k \in DOMAIN body

\* A number for a request in flight that no other request in flight has.
FreshRequest ==
    CHOOSE n \in 1..(Cardinality(pending) + 1) : \A r \in pending : r.n # n

\* validate(createIssueSchema)
createIssueSchema(body) ==
    /\ Has(body, "title") /\ TextLen(body.title) >= 1
    /\ Has(body, "description") /\ TextLen(body.description) >= MinDescriptionLen
    /\ Has(body, "address") /\ TextLen(body.address) >= 1
    /\ Has(body, "categoryId")
    /\ Has(body, "priority") => body.priority \in IssuePriority
    /\ Has(body, "isEmergency") => body.isEmergency \in BOOLEAN

\* validate(updateIssueSchema)
updateIssueSchema(body) ==
    /\ Has(body, "title") => TextLen(body.title) >= 1
    /\ Has(body, "description") => TextLen(body.description) >= MinDescriptionLen
    /\ Has(body, "address") => TextLen(body.address) >= 1
    /\ Has(body, "status") => body.status \in IssueStatus
    /\ Has(body, "priority") => body.priority \in IssuePriority
    /\ Has(body, "isEmergency") => body.isEmergency \in BOOLEAN

(***************************************************************************)
(* createIssue                                                             *)
(***************************************************************************)
\* generateReferenceNumber(): a fresh human-readable number per call.
generateReferenceNumber == <<"GLY", nextIssue>>

\* The row prisma.issue.create stores for createIssue's data.
NewIssue(c, body) ==
    LET isEmergency == IF Has(body, "isEmergency") THEN body.isEmergency ELSE FALSE
        priority == IF Has(body, "priority") THEN body.priority ELSE "MEDIUM"
    IN  [title |-> body.title,
         description |-> body.description,
         address |-> body.address,
         latitude |-> IF Has(body, "latitude") THEN Some(body.latitude) ELSE None,
         longitude |-> IF Has(body, "longitude") THEN Some(body.longitude) ELSE None,
         status |-> "PENDING",
         priority |-> IF isEmergency THEN "EMERGENCY" ELSE priority,
         isEmergency |-> isEmergency,
         referenceNumber |-> generateReferenceNumber,
         completedAt |-> None,
         createdAt |-> now,
         categoryId |-> body.categoryId,
         subcategoryId |-> IF Has(body, "subcategoryId") THEN body.subcategoryId ELSE Null,
         createdById |-> c,
         assignedToId |-> Null]

ValidCategory(categoryId) ==
    categoryId \in DOMAIN categories /\ categories[categoryId].isActive

ValidSubcategory(subcategoryId, categoryId) ==
    /\ subcategoryId \in DOMAIN subcategories
    /\ subcategories[subcategoryId].categoryId = categoryId
    /\ subcategories[subcategoryId].isActive

CreateIssue(c, body) ==
    /\ IF ~authenticate(c)
       THEN /\ res' = Response("createIssue", c, 0, body, 401, <<>>)
            /\ UNCHANGED <<issues, nextIssue>>
       ELSE IF ~createIssueSchema(body)
       THEN /\ res' = Response("createIssue", c, 0, body, 400, <<>>)
            /\ UNCHANGED <<issues, nextIssue>>
       ELSE IF ~ValidCategory(body.categoryId)
       THEN /\ res' = Response("createIssue", c, 0, body, 400, <<>>)
            /\ UNCHANGED <<issues, nextIssue>>
       ELSE IF Has(body, "subcategoryId")
               /\ ~ValidSubcategory(body.subcategoryId, body.categoryId)
       THEN /\ res' = Response("createIssue", c, 0, body, 400, <<>>)
            /\ UNCHANGED <<issues, nextIssue>>
       ELSE /\ issues' = issues @@ (nextIssue :> NewIssue(c, body))
            /\ nextIssue' = nextIssue + 1
            /\ res' = Response("createIssue", c, nextIssue, body, 201, <<nextIssue>>)
    /\ UNCHANGED <<users, categories, subcategories, photos, comments,
                   blobs, uploads, nextUpload, now, history, pending>>

(***************************************************************************)
(* updateIssue                                                             *)
(***************************************************************************)
UserFields == {"title", "description", "address", "latitude", "longitude"}
StaffFields == UserFields \cup
    {"status", "priority", "assignedToId", "categoryId", "subcategoryId", "isEmergency"}

\* Mutant: a citizen is given the staff's field list.
allowedFields_AllForOwner(c, issue) ==
    IF users[c].role = "USER" /\ issue.createdById = c
    THEN StaffFields
    ELSE IF users[c].role \in {"SUPERVISOR", "OFFICE", "ADMIN"}
    THEN StaffFields
    ELSE {}

\* allowedFields of updateIssue; {} when canUpdate stays false.
allowedFields(c, issue) ==
    IF users[c].role = "USER" /\ issue.createdById = c
    THEN UserFields
    ELSE IF users[c].role \in {"SUPERVISOR", "OFFICE", "ADMIN"}
    THEN StaffFields
    ELSE {}

canUpdate(c, issue) ==
    \/ users[c].role = "USER" /\ issue.createdById = c
    \/ users[c].role \in {"SUPERVISOR", "OFFICE", "ADMIN"}

\* Mutant: completedAt is stamped whenever the payload sets COMPLETED.
filteredUpdateData_AlwaysStamp(c, issue, body) ==
    LET kept == [k \in (DOMAIN body) \cap allowedFields(c, issue) |-> body[k]]
    IN  IF Has(kept, "status") /\ kept.status = "COMPLETED"
        THEN kept @@ [completedAt |-> Some(now)]
        ELSE kept

\* filteredUpdateData, with the completedAt stamp.
filteredUpdateData(c, issue, body) ==
    LET kept == [k \in (DOMAIN body) \cap allowedFields(c, issue) |-> body[k]]
    IN  IF Has(kept, "status") /\ kept.status = "COMPLETED" /\ issue.status # "COMPLETED"
        THEN kept @@ [completedAt |-> Some(now)]
        ELSE kept

\* Nullable numeric columns are stored as options.
Stored(k, v) == IF k \in {"latitude", "longitude"} THEN Some(v) ELSE v

\* Mutant: the status of an issue that is COMPLETED, REJECTED or CANCELLED
\* is not written again.
ApplyUpdate_TerminalKept(issue, data) ==
    [k \in DOMAIN issue |->
        IF k \in DOMAIN data
           /\ ~(k = "status" /\ issue.status \in {"COMPLETED", "REJECTED", "CANCELLED"})
        THEN (IF k = "completedAt" THEN data[k] ELSE Stored(k, data[k]))
        ELSE issue[k]]

\* prisma.issue.update({ where: { id }, data })
ApplyUpdate(issue, data) ==
    [k \in DOMAIN issue |-> IF k \in DOMAIN data
                            THEN (IF k = "completedAt" THEN data[k] ELSE Stored(k, data[k]))
                            ELSE issue[k]]

\* The foreign keys of the issues table accept the data.
ForeignKeysOk(data) ==
    /\ Has(data, "assignedToId") => data.assignedToId \in DOMAIN users
    /\ Has(data, "categoryId") => data.categoryId \in DOMAIN categories
    /\ Has(data, "subcategoryId") => data.subcategoryId \in DOMAIN subcategories

UpdateIssue(c, id, body) ==
    /\ IF ~authenticate(c)
       THEN /\ res' = Response("updateIssue", c, id, body, 401, <<>>)
            /\ UNCHANGED issues
       ELSE IF ~updateIssueSchema(body)
       THEN /\ res' = Response("updateIssue", c, id, body, 400, <<>>)
            /\ UNCHANGED issues
       ELSE IF id \notin DOMAIN issues
       THEN /\ res' = Response("updateIssue", c, id, body, 404, <<>>)
            /\ UNCHANGED issues
       ELSE IF ~canUpdate(c, issues[id])
       THEN /\ res' = Response("updateIssue", c, id, body, 403, <<>>)
            /\ UNCHANGED issues
       ELSE LET data == filteredUpdateData(c, issues[id], body)
            IN  IF ~ForeignKeysOk(data)
                THEN /\ res' = Response("updateIssue", c, id, body, 500, <<>>)
                     /\ UNCHANGED issues
                ELSE /\ issues' = [issues EXCEPT ![id] = ApplyUpdate(issues[id], data)]
                     /\ res' = Response("updateIssue", c, id, body, 200, <<id>>)
    /\ UNCHANGED <<users, categories, subcategories, photos, comments,
                   blobs, uploads, nextIssue, nextUpload, now, history, pending>>

\* updateIssue as the two awaits it is made of.  The first step ends when
\* findUnique has answered: the permission check, the filtering and the
\* completedAt stamp (new Date()) all use the issue as it was read.
UpdateIssueFind(c, id, body) ==
    /\ IF ~authenticate(c)
       THEN /\ res' = Response("updateIssue", c, id, body, 401, <<>>)
            /\ UNCHANGED pending
       ELSE IF ~updateIssueSchema(body)
       THEN /\ res' = Response("updateIssue", c, id, body, 400, <<>>)
            /\ UNCHANGED pending
       ELSE IF id \notin DOMAIN issues
       THEN /\ res' = Response("updateIssue", c, id, body, 404, <<>>)
            /\ UNCHANGED pending
       ELSE IF ~canUpdate(c, issues[id])
       THEN /\ res' = Response("updateIssue", c, id, body, 403, <<>>)
            /\ UNCHANGED pending
       ELSE /\ pending' = pending \cup
                 {[op |-> "updateIssue", n |-> FreshRequest, c |-> c, id |-> id,
                   body |-> body, currentIssue |-> issues[id],
                   data |-> filteredUpdateData(c, issues[id], body)]}
            /\ UNCHANGED res
    /\ UNCHANGED <<users, categories, subcategories, issues, photos, comments,
                   blobs, uploads, nextIssue, nextUpload, now, history>>

\* The second step: prisma.issue.update({ where: { id }, data }), which
\* throws when the row is gone or a foreign key refuses the data.
UpdateIssueUpdate(r) ==
    /\ r \in pending /\ r.op = "updateIssue"
    /\ pending' = pending \ {r}
    /\ IF r.id \notin DOMAIN issues \/ ~ForeignKeysOk(r.data)
       THEN /\ res' = Response("updateIssue", r.c, r.id, r.body, 500, <<>>)
            /\ UNCHANGED issues
       ELSE /\ issues' = [issues EXCEPT ![r.id] = ApplyUpdate(issues[r.id], r.data)]
            /\ res' = Response("updateIssue", r.c, r.id, r.body, 200, <<r.id>>)
    /\ UNCHANGED <<users, categories, subcategories, photos, comments,
                   blobs, uploads, nextIssue, nextUpload, now, history>>

(***************************************************************************)
(* getIssues                                                               *)
(***************************************************************************)
\* where.k = v: a later assignment replaces an earlier one to the same key.
Assign(where, k, v) == (k :> v) @@ where

Eq(field, value) == [field |-> field, test |-> "equals", value |-> value]
Like(field, term) == [field |-> field, test |-> "contains", value |-> term]

\* where after the role-based filtering.
RoleWhere(c) ==
    IF users[c].role = "USER"
    THEN Assign(<<>>, "createdById", c)
    ELSE IF users[c].role = "SUPERVISOR"
    THEN Assign(<<>>, "OR", {Eq("assignedToId", c), Eq("assignedToId", Null),
                             Eq("createdById", c)})
    ELSE <<>>

\* Mutant: the assignee and creator filters are honoured for every role.
MayFilterByPerson_Anyone(c) == TRUE

\* The role test guarding the assignedToId and createdById filters.
MayFilterByPerson(c) == users[c].role \in {"ADMIN", "SUPERVISOR", "OFFICE"}

\* where after the caller-supplied filters are applied to it, in the
\* handler's order.
FilterWhere(c, query, where) ==
    LET w1 == IF Has(query, "status") /\ query.status # {}
              THEN Assign(where, "status", query.status) ELSE where
        w2 == IF Has(query, "priority") /\ query.priority # {}
              THEN Assign(w1, "priority", query.priority) ELSE w1
        w3 == IF Has(query, "categoryId")
              THEN Assign(w2, "categoryId", query.categoryId) ELSE w2
        w4 == IF Has(query, "subcategoryId")
              THEN Assign(w3, "subcategoryId", query.subcategoryId) ELSE w3
        w5 == IF Has(query, "assignedToId") /\ MayFilterByPerson(c)
              THEN Assign(w4, "assignedToId", query.assignedToId) ELSE w4
        w6 == IF Has(query, "createdById") /\ MayFilterByPerson(c)
              THEN Assign(w5, "createdById", query.createdById) ELSE w5
        w7 == IF Has(query, "dateFrom") \/ Has(query, "dateTo")
              THEN Assign(w6, "createdAt",
                     [gte |-> IF Has(query, "dateFrom") THEN Some(query.dateFrom) ELSE None,
                      lte |-> IF Has(query, "dateTo") THEN Some(query.dateTo) ELSE None])
              ELSE w6
        w8 == IF Has(query, "isEmergency")
              THEN Assign(w7, "isEmergency", query.isEmergency = "true") ELSE w7
        w9 == IF Has(query, "search") /\ query.search # ""
              THEN Assign(w8, "OR", {Like("title", query.search),
                                     Like("description", query.search),
                                     Like("address", query.search),
                                     Like("referenceNumber", query.search)})
              ELSE w8
    IN  w9

BuildWhere(c, query) == FilterWhere(c, query, RoleWhere(c))

\* The characters of a reference number.
ReferenceChars(ref) ==
    IF ref[1] = "GLY"
    THEN <<"G", "L", "Y", "-", Digit[ref[2]]>>
    ELSE <<"G", "L", "Y", "-", "I", "M", "P", "-", Digit[ref[2]], "-", Digit[ref[3]]>>

FieldChars(issue, field) ==
    IF field = "referenceNumber"
    THEN ReferenceChars(issue.referenceNumber)
    ELSE Chars(issue[field])

\* One alternative of an OR list.
Holds(issue, cond) ==
    IF cond.test = "equals"
    THEN issue[cond.field] = cond.value
    ELSE Contains(FieldChars(issue, cond.field), Chars(cond.value))

\* prisma's where: every key present must hold (AND), OR needs one alternative.
Matches(issue, where) ==
    \A k \in DOMAIN where :
        CASE k = "OR" -> \E cond \in where[k] : Holds(issue, cond)
          [] k \in {"status", "priority"} -> issue[k] \in where[k]
          [] k = "createdAt" ->
                /\ where[k].gte # None => issue.createdAt >= where[k].gte[1]
                /\ where[k].lte # None => issue.createdAt <= where[k].lte[1]
          [] OTHER -> issue[k] = where[k]

\* orderBy [{ isEmergency: 'desc' }, { createdAt: 'desc' }]; rows equal in
\* both come in insertion order.
Before(i, j) ==
    LET a == issues[i]
        b == issues[j]
    IN  \/ a.isEmergency /\ ~b.isEmergency
        \/ a.isEmergency = b.isEmergency /\ a.createdAt > b.createdAt
        \/ a.isEmergency = b.isEmergency /\ a.createdAt = b.createdAt /\ i < j

RECURSIVE Ordered(_)
Ordered(ids) ==
    IF ids = {}
    THEN <<>>
    ELSE LET first == CHOOSE i \in ids : \A j \in ids \ {i} : Before(i, j)
         IN  <<first>> \o Ordered(ids \ {first})

\* skip and take of findMany.
Page(rows, page, limit) ==
    LET skip == (page - 1) * limit
    IN  SubSeq(rows, skip + 1, IF skip + limit < Len(rows) THEN skip + limit ELSE Len(rows))

DefaultLimit == 20

GetIssues(c, query) ==
    /\ IF ~authenticate(c)
       THEN res' = Response("getIssues", c, 0, query, 401, <<>>)
       ELSE LET where == BuildWhere(c, query)
                found == {i \in DOMAIN issues : Matches(issues[i], where)}
                page == IF Has(query, "page") THEN query.page ELSE 1
                limit == IF Has(query, "limit") THEN query.limit ELSE DefaultLimit
            IN  res' = Response("getIssues", c, 0, query, 200,
                                Page(Ordered(found), page, limit))
    /\ UNCHANGED <<users, categories, subcategories, issues, photos, comments,
                   blobs, uploads, nextIssue, nextUpload, now, history, pending>>

(***************************************************************************)
(* getIssueById and getIssueStats                                          *)
(***************************************************************************)
\* The permission check of the single-issue reads.
canRead(c, issue) == ~(users[c].role = "USER" /\ issue.createdById # c)

\* Mutant: the comments are included whatever the caller's role.
IssueComments_All(c, id) == {m \in comments : m.issueId = id}

\* include: { comments: { where: userRole === 'USER'
\*                                ? { isInternal: false } : {} } }
IssueComments(c, id) ==
    {m \in comments :
        /\ m.issueId = id
        /\ users[c].role = "USER" => ~m.isInternal}

GetIssueById(c, id) ==
    /\ IF ~authenticate(c)
       THEN res' = Response("getIssueById", c, id, <<>>, 401, <<>>)
       ELSE IF id \notin DOMAIN issues
       THEN res' = Response("getIssueById", c, id, <<>>, 404, <<>>)
       ELSE IF ~canRead(c, issues[id])
       THEN res' = Response("getIssueById", c, id, <<>>, 403, <<>>)
       ELSE res' = Response("getIssueById", c, id, <<>>, 200,
                            <<id, IssueComments(c, id)>>)
    /\ UNCHANGED <<users, categories, subcategories, issues, photos, comments,
                   blobs, uploads, nextIssue, nextUpload, now, history, pending>>

\* Mutant: the statistics of an issue are open to every caller.
canReadStats_Open(c, issue) == TRUE

\* The permission check of getIssueStats.
canReadStats(c, issue) == ~(users[c].role = "USER" /\ issue.createdById # c)

GetIssueStats(c, id) ==
    /\ IF ~authenticate(c)
       THEN res' = Response("getIssueStats", c, id, <<>>, 401, <<>>)
       ELSE IF id \notin DOMAIN issues
       THEN res' = Response("getIssueStats", c, id, <<>>, 404, <<>>)
       ELSE IF ~canReadStats(c, issues[id])
       THEN res' = Response("getIssueStats", c, id, <<>>, 403, <<>>)
       ELSE res' = Response("getIssueStats", c, id, <<>>, 200, <<id>>)
    /\ UNCHANGED <<users, categories, subcategories, issues, photos, comments,
                   blobs, uploads, nextIssue, nextUpload, now, history, pending>>

(***************************************************************************)
(* deleteIssue                                                             *)
(***************************************************************************)
\* Mutant: every role but a foreign citizen may delete.
canDelete_StaffToo(c, issue) ==
    users[c].role # "USER" \/ issue.createdById = c

\* canDelete of deleteIssue.
canDelete(c, issue) ==
    users[c].role = "ADMIN" \/ (users[c].role = "USER" /\ issue.createdById = c)

DeleteIssue(c, id) ==
    /\ IF ~authenticate(c)
       THEN /\ res' = Response("deleteIssue", c, id, <<>>, 401, <<>>)
            /\ UNCHANGED <<issues, photos, comments, history>>
       ELSE IF id \notin DOMAIN issues
       THEN /\ res' = Response("deleteIssue", c, id, <<>>, 404, <<>>)
            /\ UNCHANGED <<issues, photos, comments, history>>
       ELSE IF ~canDelete(c, issues[id])
       THEN /\ res' = Response("deleteIssue", c, id, <<>>, 403, <<>>)
            /\ UNCHANGED <<issues, photos, comments, history>>
       ELSE \* photos_issueId_fkey and comments_issueId_fkey: ON DELETE CASCADE
            /\ issues' = [i \in (DOMAIN issues) \ {id} |-> issues[i]]
            /\ photos' = {p \in photos : p.issueId # id}
            /\ comments' = {m \in comments : m.issueId # id}
            /\ history' = [history EXCEPT !.retired = @ \cup {issues[id].referenceNumber}]
            /\ res' = Response("deleteIssue", c, id, <<>>, 200, <<>>)
    /\ UNCHANGED <<users, categories, subcategories, blobs, uploads,
                   nextIssue, nextUpload, now, pending>>

(***************************************************************************)
(* A row of the comments table: no handler of these sources writes one.    *)
(***************************************************************************)
InsertComment(author, id, isInternal) ==
    /\ id \in DOMAIN issues
    /\ author \in DOMAIN users
    /\ comments' = comments \cup
          {[issueId |-> id, userId |-> author, isInternal |-> isInternal]}
    /\ UNCHANGED <<users, categories, subcategories, issues, photos, blobs,
                   uploads, nextIssue, nextUpload, now, res, history, pending>>

(***************************************************************************)
(* uploadPhotos: one request is a record of uploads, advanced at each      *)
(* await of the handler.                                                   *)
(***************************************************************************)
MaxPhotosPerIssue == 5
MaxFilesPerRequest == 5

\* The files upload.array('photos', 5) writes for request r, in array order.
FilesOf(r, n) == {<<r, k>> : k \in 1..n}

\* Mutant: the first unlinkSync that throws ends the forEach.
Unlinked_StopAtFirstFailure(files, stuck) ==
    {f \in files : \A g \in stuck : f[2] < g[2]}

\* The files the cleanup forEach removes: unlinkSync throws on the stuck
\* ones, and each throw is caught inside the loop body.
Unlinked(files, stuck) == files \ stuck

PhotoCount(id) == Cardinality({p \in photos : p.issueId = id})

\* Mutant: the limit is tested on the batch alone.
OverLimit_BatchOnly(currentPhotoCount, n) == n > MaxPhotosPerIssue

\* currentPhotoCount + files.length > maxPhotos
OverLimit(currentPhotoCount, n) == currentPhotoCount + n > MaxPhotosPerIssue

\* The permission check of uploadPhotos.
canUpload(c, issue) == ~(users[c].role = "USER" /\ issue.createdById # c)

\* From the arrival of the request to the await of photo.count.
UploadStart(c, id, n) ==
    LET r == nextUpload
        req == [upload |-> r, files |-> n]
    IN  /\ n <= MaxFilesPerRequest
        /\ nextUpload' = r + 1
        /\ IF ~authenticate(c)
           THEN /\ res' = Response("uploadPhotos", c, id, req, 401, <<>>)
                /\ UNCHANGED <<blobs, uploads>>
           ELSE /\ blobs' = blobs \cup FilesOf(r, n)
                /\ IF id \notin DOMAIN issues
                   THEN /\ res' = Response("uploadPhotos", c, id, req, 404, <<>>)
                        /\ UNCHANGED uploads
                   ELSE IF ~canUpload(c, issues[id])
                   THEN /\ res' = Response("uploadPhotos", c, id, req, 403, <<>>)
                        /\ UNCHANGED uploads
                   ELSE IF n = 0
                   THEN /\ res' = Response("uploadPhotos", c, id, req, 400, <<>>)
                        /\ UNCHANGED uploads
                   ELSE /\ uploads' = uploads @@
                              (r :> [pc |-> "count", user |-> c, issueId |-> id,
                                     files |-> n])
                        /\ UNCHANGED res
        /\ UNCHANGED <<users, categories, subcategories, issues, photos, comments,
                       nextIssue, now, history, pending>>

Finished(r) == [q \in (DOMAIN uploads) \ {r} |-> uploads[q]]

\* The blob store after the cleanup forEach over the files of request r:
\* unlinkSync throws on some set stuck of them.
CleanedUp(r, n) ==
    \E stuck \in SUBSET FilesOf(r, n) :
        /\ Cardinality(stuck) <= MaxUnlinkFailures
        /\ blobs' = blobs \ Unlinked(FilesOf(r, n), stuck)

\* photo.count resolves; the limit is tested and the batch is refused or
\* goes on to the await of photo.createMany.
UploadCount(r) ==
    LET u == uploads[r]
        req == [upload |-> r, files |-> u.files]
    IN  /\ u.pc = "count"
        /\ IF OverLimit(PhotoCount(u.issueId), u.files)
           THEN /\ CleanedUp(r, u.files)
                /\ uploads' = Finished(r)
                /\ res' = Response("uploadPhotos", u.user, u.issueId, req, 400, <<>>)
           ELSE /\ uploads' = [uploads EXCEPT ![r].pc = "create"]
                /\ UNCHANGED <<blobs, res>>
        /\ UNCHANGED <<users, categories, subcategories, issues, photos, comments,
                       nextIssue, nextUpload, now, history, pending>>

\* photo.createMany resolves (or throws on photos_issueId_fkey, and the
\* catch block cleans up); the created photos are read back and sent.
UploadCreate(r) ==
    LET u == uploads[r]
        req == [upload |-> r, files |-> u.files]
    IN  /\ u.pc = "create"
        /\ uploads' = Finished(r)
        /\ IF u.issueId \notin DOMAIN issues
           THEN /\ CleanedUp(r, u.files)
                /\ res' = Response("uploadPhotos", u.user, u.issueId, req, 500, <<>>)
                /\ UNCHANGED photos
           ELSE /\ photos' = photos \cup
                      {[path |-> f, issueId |-> u.issueId, uploadedById |-> u.user] :
                          f \in FilesOf(r, u.files)}
                /\ res' = Response("uploadPhotos", u.user, u.issueId, req, 201, <<>>)
                /\ UNCHANGED blobs
        /\ UNCHANGED <<users, categories, subcategories, issues, comments,
                       nextIssue, nextUpload, now, history, pending>>

(***************************************************************************)
(* getPhoto, deletePhoto: a photo is named by the path of its file.        *)
(***************************************************************************)
PhotoAt(f) == CHOOSE p \in photos : p.path = f

\* The permission check of getPhoto.
canView(c, photo) ==
    ~(users[c].role = "USER" /\ issues[photo.issueId].createdById # c)

GetPhoto(c, f) ==
    LET req == [photo |-> f]
    IN  /\ IF ~authenticate(c)
           THEN res' = Response("getPhoto", c, 0, req, 401, <<>>)
           ELSE IF \A p \in photos : p.path # f
           THEN res' = Response("getPhoto", c, 0, req, 404, <<>>)
           ELSE IF ~canView(c, PhotoAt(f))
           THEN res' = Response("getPhoto", c, PhotoAt(f).issueId, req, 403, <<>>)
           ELSE IF f \notin blobs
           THEN res' = Response("getPhoto", c, PhotoAt(f).issueId, req, 404, <<>>)
           ELSE res' = Response("getPhoto", c, PhotoAt(f).issueId, req, 200, <<f>>)
        /\ UNCHANGED <<users, categories, subcategories, issues, photos, comments,
                       blobs, uploads, nextIssue, nextUpload, now, history, pending>>

\* Mutant: every member of staff may delete.
canDeletePhoto_Staff(c, photo) ==
    \/ users[c].role # "USER"
    \/ photo.uploadedById = c
    \/ issues[photo.issueId].createdById = c

\* canDelete of deletePhoto.
canDeletePhoto(c, photo) ==
    \/ users[c].role = "ADMIN"
    \/ photo.uploadedById = c
    \/ (users[c].role = "USER" /\ issues[photo.issueId].createdById = c)

DeletePhoto(c, f) ==
    LET req == [photo |-> f]
    IN  /\ IF ~authenticate(c)
           THEN /\ res' = Response("deletePhoto", c, 0, req, 401, <<>>)
                /\ UNCHANGED <<photos, blobs>>
           ELSE IF \A p \in photos : p.path # f
           THEN /\ res' = Response("deletePhoto", c, 0, req, 404, <<>>)
                /\ UNCHANGED <<photos, blobs>>
           ELSE IF ~canDeletePhoto(c, PhotoAt(f))
           THEN /\ res' = Response("deletePhoto", c, PhotoAt(f).issueId, req, 403, <<>>)
                /\ UNCHANGED <<photos, blobs>>
           ELSE /\ photos' = photos \ {PhotoAt(f)}
                \* unlinkSync in try/catch: the file goes, or the throw is
                \* swallowed and it stays.
                /\ \/ blobs' = blobs \ {f}
                   \/ f \in blobs /\ blobs' = blobs
                /\ res' = Response("deletePhoto", c, PhotoAt(f).issueId, req, 200, <<>>)
        /\ UNCHANGED <<users, categories, subcategories, issues, comments,
                       uploads, nextIssue, nextUpload, now, history, pending>>

(***************************************************************************)
(* Category administration: createSubcategory, deleteSubcategory,          *)
(* deleteCategory, all behind authenticate and adminOnly.                  *)
(***************************************************************************)
\* Ids the database hands to new subcategories.
SubcategoryIds == {"sc4"}

CreateSubcategory(c, body) ==
    /\ IF ~authenticate(c)
       THEN /\ res' = Response("createSubcategory", c, Null, body, 401, <<>>)
            /\ UNCHANGED subcategories
       ELSE IF ~authorize({"ADMIN"}, c)
       THEN /\ res' = Response("createSubcategory", c, Null, body, 403, <<>>)
            /\ UNCHANGED subcategories
       ELSE IF ~ValidCategory(body.categoryId)
       THEN /\ res' = Response("createSubcategory", c, Null, body, 404, <<>>)
            /\ UNCHANGED subcategories
       ELSE IF \E s \in DOMAIN subcategories :
                  /\ subcategories[s].name = body.name
                  /\ subcategories[s].categoryId = body.categoryId
                  /\ subcategories[s].isActive
       THEN /\ res' = Response("createSubcategory", c, Null, body, 400, <<>>)
            /\ UNCHANGED subcategories
       ELSE LET id == CHOOSE k \in SubcategoryIds : k \notin DOMAIN subcategories
            IN  /\ subcategories' = subcategories @@
                       (id :> [name |-> body.name, categoryId |-> body.categoryId,
                               estimatedDays |-> None, isActive |-> TRUE])
                /\ res' = Response("createSubcategory", c, id, body, 201, <<>>)
    /\ UNCHANGED <<users, categories, issues, photos, comments, blobs, uploads,
                   nextIssue, nextUpload, now, history, pending>>

DeleteSubcategory(c, id) ==
    /\ IF ~authenticate(c)
       THEN /\ res' = Response("deleteSubcategory", c, id, <<>>, 401, <<>>)
            /\ UNCHANGED subcategories
       ELSE IF ~authorize({"ADMIN"}, c)
       THEN /\ res' = Response("deleteSubcategory", c, id, <<>>, 403, <<>>)
            /\ UNCHANGED subcategories
       ELSE IF ~(id \in DOMAIN subcategories /\ subcategories[id].isActive)
       THEN /\ res' = Response("deleteSubcategory", c, id, <<>>, 404, <<>>)
            /\ UNCHANGED subcategories
       ELSE IF \E i \in DOMAIN issues : issues[i].subcategoryId = id
       THEN /\ res' = Response("deleteSubcategory", c, id, <<>>, 400, <<>>)
            /\ UNCHANGED subcategories
       ELSE /\ subcategories' = [subcategories EXCEPT ![id].isActive = FALSE]
            /\ res' = Response("deleteSubcategory", c, id, <<>>, 200, <<>>)
    /\ UNCHANGED <<users, categories, issues, photos, comments, blobs, uploads,
                   nextIssue, nextUpload, now, history, pending>>

\* Mutant: the subcategories are left as they are.
SoftDeletedSubcategories_Kept(id) == subcategories

\* prisma.subcategory.updateMany({ where: { categoryId: id },
\*                                 data: { isActive: false } })
SoftDeletedSubcategories(id) ==
    [s \in DOMAIN subcategories |->
        IF subcategories[s].categoryId = id
        THEN [subcategories[s] EXCEPT !.isActive = FALSE]
        ELSE subcategories[s]]

\* prisma.issue.count({ where: { categoryId: id } })
issuesCount(id) == Cardinality({i \in DOMAIN issues : issues[i].categoryId = id})

DeleteCategory(c, id) ==
    /\ IF ~authenticate(c)
       THEN /\ res' = Response("deleteCategory", c, id, <<>>, 401, <<>>)
            /\ UNCHANGED <<categories, subcategories>>
       ELSE IF ~authorize({"ADMIN"}, c)
       THEN /\ res' = Response("deleteCategory", c, id, <<>>, 403, <<>>)
            /\ UNCHANGED <<categories, subcategories>>
       ELSE IF ~ValidCategory(id)
       THEN /\ res' = Response("deleteCategory", c, id, <<>>, 404, <<>>)
            /\ UNCHANGED <<categories, subcategories>>
       ELSE IF issuesCount(id) > 0
       THEN /\ res' = Response("deleteCategory", c, id, <<>>, 400, <<>>)
            /\ UNCHANGED <<categories, subcategories>>
       ELSE /\ categories' = [categories EXCEPT ![id].isActive = FALSE]
            /\ subcategories' = SoftDeletedSubcategories(id)
            /\ res' = Response("deleteCategory", c, id, <<>>, 200, <<>>)
    /\ UNCHANGED <<users, issues, photos, comments, blobs, uploads,
                   nextIssue, nextUpload, now, history, pending>>

(***************************************************************************)
(* createCategory and updateCategory: each reads the categories table      *)
(* (findFirst/findUnique) and writes it in a later await; another request  *)
(* may run between the two.  updateSubcategory.                            *)
(***************************************************************************)
\* Ids the database hands to new categories.
CategoryIds == {"c3", "c4"}

\* validate(createCategorySchema): name and color are required; the color
\* of a body stands for a well-formed value.
createCategorySchema(body) ==
    /\ Has(body, "name") /\ body.name # ""
    /\ Has(body, "color")

\* prisma.category.findFirst({ where: { name, isActive: true,
\*                                      id: { not: except } } })
duplicateCategory(name, except) ==
    \E k \in DOMAIN categories :
        /\ categories[k].name = name
        /\ categories[k].isActive
        /\ k # except

\* createCategory up to the answer of findFirst.
CreateCategoryFind(c, body) ==
    /\ IF ~authenticate(c)
       THEN /\ res' = Response("createCategory", c, Null, body, 401, <<>>)
            /\ UNCHANGED pending
       ELSE IF ~authorize({"ADMIN"}, c)
       THEN /\ res' = Response("createCategory", c, Null, body, 403, <<>>)
            /\ UNCHANGED pending
       ELSE IF ~createCategorySchema(body)
       THEN /\ res' = Response("createCategory", c, Null, body, 400, <<>>)
            /\ UNCHANGED pending
       ELSE IF duplicateCategory(body.name, Null)
       THEN /\ res' = Response("createCategory", c, Null, body, 400, <<>>)
            /\ UNCHANGED pending
       ELSE /\ pending' = pending \cup
                 {[op |-> "createCategory", n |-> FreshRequest, c |-> c,
                   id |-> Null, body |-> body]}
            /\ UNCHANGED res
    /\ UNCHANGED <<users, categories, subcategories, issues, photos, comments,
                   blobs, uploads, nextIssue, nextUpload, now, history>>

\* createCategory from prisma.category.create on; the categories table has
\* no unique index on name.
CreateCategoryCreate(r) ==
    /\ r \in pending /\ r.op = "createCategory"
    /\ CategoryIds \ DOMAIN categories # {}
    /\ pending' = pending \ {r}
    /\ LET id == CHOOSE k \in CategoryIds : k \notin DOMAIN categories
       IN  /\ categories' = categories @@ (id :> [name |-> r.body.name, isActive |-> TRUE])
           /\ res' = Response("createCategory", r.c, id, r.body, 201, <<id>>)
    /\ UNCHANGED <<users, subcategories, issues, photos, comments,
                   blobs, uploads, nextIssue, nextUpload, now, history>>

\* name && ...: an absent or empty name is not written.
GivesName(body) == Has(body, "name") /\ body.name # ""

\* updateCategory up to the answer of its last read.
UpdateCategoryFind(c, id, body) ==
    /\ IF ~authenticate(c)
       THEN /\ res' = Response("updateCategory", c, id, body, 401, <<>>)
            /\ UNCHANGED pending
       ELSE IF ~authorize({"ADMIN"}, c)
       THEN /\ res' = Response("updateCategory", c, id, body, 403, <<>>)
            /\ UNCHANGED pending
       ELSE IF ~ValidCategory(id)
       THEN /\ res' = Response("updateCategory", c, id, body, 404, <<>>)
            /\ UNCHANGED pending
       ELSE IF /\ GivesName(body)
               /\ body.name # categories[id].name
               /\ duplicateCategory(body.name, id)
       THEN /\ res' = Response("updateCategory", c, id, body, 400, <<>>)
            /\ UNCHANGED pending
       ELSE /\ pending' = pending \cup
                 {[op |-> "updateCategory", n |-> FreshRequest, c |-> c,
                   id |-> id, body |-> body]}
            /\ UNCHANGED res
    /\ UNCHANGED <<users, categories, subcategories, issues, photos, comments,
                   blobs, uploads, nextIssue, nextUpload, now, history>>

\* updateCategory from prisma.category.update({ where: { id } }) on.
UpdateCategoryUpdate(r) ==
    /\ r \in pending /\ r.op = "updateCategory"
    /\ pending' = pending \ {r}
    /\ categories' = [categories EXCEPT
          ![r.id].name = IF GivesName(r.body) THEN r.body.name ELSE @]
    /\ res' = Response("updateCategory", r.c, r.id, r.body, 200, <<r.id>>)
    /\ UNCHANGED <<users, subcategories, issues, photos, comments,
                   blobs, uploads, nextIssue, nextUpload, now, history>>

UpdateSubcategory(c, id, body) ==
    /\ IF ~authenticate(c)
       THEN /\ res' = Response("updateSubcategory", c, id, body, 401, <<>>)
            /\ UNCHANGED subcategories
       ELSE IF ~authorize({"ADMIN"}, c)
       THEN /\ res' = Response("updateSubcategory", c, id, body, 403, <<>>)
            /\ UNCHANGED subcategories
       ELSE IF ~(id \in DOMAIN subcategories /\ subcategories[id].isActive)
       THEN /\ res' = Response("updateSubcategory", c, id, body, 404, <<>>)
            /\ UNCHANGED subcategories
       ELSE IF /\ GivesName(body)
               /\ body.name # subcategories[id].name
               /\ \E k \in DOMAIN subcategories :
                     /\ subcategories[k].name = body.name
                     /\ subcategories[k].categoryId = subcategories[id].categoryId
                     /\ subcategories[k].isActive
                     /\ k # id
       THEN /\ res' = Response("updateSubcategory", c, id, body, 400, <<>>)
            /\ UNCHANGED subcategories
       ELSE /\ subcategories' = [subcategories EXCEPT
                  ![id].name = IF GivesName(body) THEN body.name ELSE @,
                  ![id].estimatedDays = IF Has(body, "estimatedDays")
                                        THEN Some(body.estimatedDays) ELSE @]
            /\ res' = Response("updateSubcategory", c, id, body, 200, <<id>>)
    /\ UNCHANGED <<users, categories, issues, photos, comments, blobs, uploads,
                   nextIssue, nextUpload, now, history, pending>>

(***************************************************************************)
(* importIssues                                                            *)
(***************************************************************************)
\* The issue prisma.issue.create stores for one imported row: the columns
\* the row does not give take the defaults of the issues table.
ImportedIssue(c, row, categoryId, rowNumber) ==
    [title |-> row.title,
     description |-> row.description,
     address |-> row.address,
     latitude |-> None,
     longitude |-> None,
     status |-> "PENDING",
     priority |-> "MEDIUM",
     isEmergency |-> FALSE,
     referenceNumber |-> <<"IMP", now, rowNumber>>,
     completedAt |-> None,
     createdAt |-> now,
     categoryId |-> categoryId,
     subcategoryId |-> Null,
     createdById |-> c,
     assignedToId |-> Null]

\* issues_referenceNumber_key
ReferenceTaken(table, referenceNumber) ==
    \E i \in DOMAIN table : table[i].referenceNumber = referenceNumber

\* prisma.category.findFirst({ where: { name, isActive: true } })
ActiveCategoriesNamed(name) ==
    {k \in DOMAIN categories : categories[k].name = name /\ categories[k].isActive}

\* row.getCell(k).text: a cell the row does not have reads as empty.
Cell(row, k) == IF k <= Len(row) THEN row[k] ELSE ""

\* The four cells the loop body reads from a worksheet row.
RowFields(cells) ==
    [title |-> Cell(cells, 1), description |-> Cell(cells, 2),
     address |-> Cell(cells, 3), categoryName |-> Cell(cells, 4)]

RowMissingFields(row) ==
    row.title = "" \/ row.description = "" \/ row.address = "" \/ row.categoryName = ""

\* Mutant: a failed row is counted but leaves no message.
RowFailed_NoMessage(acc, rowNumber, message) ==
    [acc EXCEPT !.failed = @ + 1]

\* importResults.errors.push(`Row ${rowNumber}: ...`); importResults.failed++
RowFailed(acc, rowNumber, message) ==
    [acc EXCEPT !.failed = @ + 1,
                !.errors = Append(@, [row |-> rowNumber, message |-> message])]

\* One pass of the for loop: acc is the table, the next id and importResults.
ImportRow(c, cells, rowNumber, acc) ==
    LET row == RowFields(cells) IN
    IF RowMissingFields(row)
    THEN RowFailed(acc, rowNumber, "Missing required fields")
    ELSE IF ActiveCategoriesNamed(row.categoryName) = {}
    THEN RowFailed(acc, rowNumber, "Category not found")
    ELSE LET categoryId == CHOOSE k \in ActiveCategoriesNamed(row.categoryName) : TRUE
             issue == ImportedIssue(c, row, categoryId, rowNumber)
         IN  IF ReferenceTaken(acc.table, issue.referenceNumber)
             THEN RowFailed(acc, rowNumber, "Unique constraint failed")
             ELSE [acc EXCEPT !.table = @ @@ (acc.next :> issue),
                              !.next = @ + 1,
                              !.successful = @ + 1]

\* for (rowNumber = 2; rowNumber <= worksheet.rowCount; rowNumber++): the
\* header is row 1 of the worksheet.
RECURSIVE ImportRows(_, _, _, _)
ImportRows(c, worksheet, rowNumber, acc) ==
    IF rowNumber > Len(worksheet)
    THEN acc
    ELSE ImportRows(c, worksheet, rowNumber + 1,
                    ImportRow(c, worksheet[rowNumber], rowNumber, acc))

\* file is req.file: None when the request carries no upload, else the
\* worksheet read from it, a sequence of rows of cell texts.
ImportIssues(c, file) ==
    /\ IF ~authenticate(c)
       THEN /\ res' = Response("importIssues", c, 0, file, 401, <<>>)
            /\ UNCHANGED <<issues, nextIssue>>
       ELSE IF ~authorize({"ADMIN"}, c)
       THEN /\ res' = Response("importIssues", c, 0, file, 403, <<>>)
            /\ UNCHANGED <<issues, nextIssue>>
       ELSE IF file = None
       THEN /\ res' = Response("importIssues", c, 0, file, 400, <<>>)
            /\ UNCHANGED <<issues, nextIssue>>
       ELSE LET out == ImportRows(c, file[1], 2,
                           [table |-> issues, next |-> nextIssue,
                            successful |-> 0, failed |-> 0, errors |-> <<>>])
            IN  /\ issues' = out.table
                /\ nextIssue' = out.next
                /\ res' = Response("importIssues", c, 0, file, 200,
                               <<[successful |-> out.successful, failed |-> out.failed,
                                  errors |-> out.errors]>>)
    /\ UNCHANGED <<users, categories, subcategories, photos, comments,
                   blobs, uploads, nextUpload, now, history, pending>>

(***************************************************************************)
(* exportIssues: the worksheet is a sequence of rows of cell texts.        *)
(***************************************************************************)
\* Mutant: only the status filter is applied.
ExportWhere_StatusOnly(query) ==
    LET w1 == IF Has(query, "status") /\ query.status # {}
              THEN Assign(<<>>, "status", query.status) ELSE <<>>
    IN  w1

\* where of exportIssues: no role scope, no search, no person filters.
ExportWhere(query) ==
    LET w1 == IF Has(query, "status") /\ query.status # {}
              THEN Assign(<<>>, "status", query.status) ELSE <<>>
        w2 == IF Has(query, "priority") /\ query.priority # {}
              THEN Assign(w1, "priority", query.priority) ELSE w1
        w3 == IF Has(query, "categoryId")
              THEN Assign(w2, "categoryId", query.categoryId) ELSE w2
        w4 == IF Has(query, "subcategoryId")
              THEN Assign(w3, "subcategoryId", query.subcategoryId) ELSE w3
        w5 == IF Has(query, "dateFrom") \/ Has(query, "dateTo")
              THEN Assign(w4, "createdAt",
                     [gte |-> IF Has(query, "dateFrom") THEN Some(query.dateFrom) ELSE None,
                      lte |-> IF Has(query, "dateTo") THEN Some(query.dateTo) ELSE None])
              ELSE w4
        w6 == IF Has(query, "isEmergency")
              THEN Assign(w5, "isEmergency", query.isEmergency = "true") ELSE w5
    IN  w6

\* orderBy { createdAt: 'desc' }; rows of one instant in insertion order.
RECURSIVE NewestFirst(_)
NewestFirst(ids) ==
    IF ids = {}
    THEN <<>>
    ELSE LET first == CHOOSE i \in ids : \A j \in ids \ {i} :
                          \/ issues[i].createdAt > issues[j].createdAt
                          \/ issues[i].createdAt = issues[j].createdAt /\ i < j
         IN  <<first>> \o NewestFirst(ids \ {first})

\* The text of a reference number.
ReferenceText(ref) ==
    IF ref[1] = "GLY"
    THEN "GLY-" \o ToString(ref[2])
    ELSE "GLY-IMP-" \o ToString(ref[2]) \o "-" \o ToString(ref[3])

\* translateStatus, translatePriority: the Greek labels, transliterated.
translateStatus(status) ==
    CASE status = "PENDING" -> "Ekkremi"
      [] status = "IN_PROGRESS" -> "Se exelixi"
      [] status = "COMPLETED" -> "Oloklirimena"
      [] status = "REJECTED" -> "Aporrifthenta"
      [] status = "CANCELLED" -> "Akyromena"
      [] OTHER -> status

translatePriority(priority) ==
    CASE priority = "LOW" -> "Chamili"
      [] priority = "MEDIUM" -> "Mesaia"
      [] priority = "HIGH" -> "Ypsili"
      [] priority = "EMERGENCY" -> "Epeigon"
      [] OTHER -> priority

\* worksheet.columns: the header row, column by column.
ExportHeader ==
    <<"Ar. Anaforas", "Titlos", "Perigrafi", "Diefthynsi", "Katigoria",
      "Ypokatigoria", "Katastasi", "Proteraiotita", "Epeigon", "Dimiourgos",
      "Email Dimiourgou", "Tilefono Dimiourgou", "Anatethike se",
      "Imerominia Dimiourgias", "Imerominia Oloklirosis", "Fotografies",
      "Scholia", "Geografiko Platos", "Geografiko Mikos">>

\* worksheet.addRow for one issue; a user's name and email are given by the
\* user's id, and no seeded user has a phone.
ExportRow(i) ==
    LET issue == issues[i]
    IN  <<ReferenceText(issue.referenceNumber),
          issue.title,
          issue.description,
          issue.address,
          categories[issue.categoryId].name,
          IF issue.subcategoryId = Null THEN ""
          ELSE subcategories[issue.subcategoryId].name,
          translateStatus(issue.status),
          translatePriority(issue.priority),
          IF issue.isEmergency THEN "Nai" ELSE "Ochi",
          issue.createdById,
          issue.createdById,
          "",
          IF issue.assignedToId = Null THEN "" ELSE issue.assignedToId,
          ToString(issue.createdAt),
          IF issue.completedAt = None THEN "" ELSE ToString(issue.completedAt[1]),
          ToString(PhotoCount(i)),
          ToString(Cardinality({m \in comments : m.issueId = i})),
          IF issue.latitude = None THEN "" ELSE ToString(issue.latitude[1]),
          IF issue.longitude = None THEN "" ELSE ToString(issue.longitude[1])>>

\* The keys of statusCounts in the order reduce first meets them.
RECURSIVE StatusKeys(_, _)
StatusKeys(ids, seen) ==
    IF ids = <<>>
    THEN <<>>
    ELSE LET status == issues[Head(ids)].status
         IN  IF status \in seen
             THEN StatusKeys(Tail(ids), seen)
             ELSE <<status>> \o StatusKeys(Tail(ids), seen \cup {status})

\* The summary below the data: two empty rows, the heading merged over
\* A..C, the total, one row per status met, the emergency count.
ExportSummary(ids) ==
    LET keys == StatusKeys(ids, {})
        idSet == {ids[k] : k \in 1..Len(ids)}
    IN  <<<<>>, <<>>,
          <<"SYNOPSI ANAFORAF", "SYNOPSI ANAFORAF", "SYNOPSI ANAFORAF">>,
          <<"Synolo Anaforon:", ToString(Len(ids))>>>>
        \o [k \in 1..Len(keys) |->
               <<translateStatus(keys[k]) \o ":",
                 ToString(Cardinality({i \in idSet : issues[i].status = keys[k]}))>>]
        \o <<<<"Epeigonta:",
               ToString(Cardinality({i \in idSet : issues[i].isEmergency}))>>>>

ExportIssues(c, query) ==
    /\ IF ~authenticate(c)
       THEN res' = Response("exportIssues", c, 0, query, 401, <<>>)
       ELSE IF ~authorize({"ADMIN", "SUPERVISOR", "OFFICE"}, c)
       THEN res' = Response("exportIssues", c, 0, query, 403, <<>>)
       ELSE IF users[c].role = "USER"
       THEN res' = Response("exportIssues", c, 0, query, 403, <<>>)
       ELSE LET where == ExportWhere(query)
                ids == NewestFirst({i \in DOMAIN issues : Matches(issues[i], where)})
                worksheet == <<ExportHeader>>
                             \o [k \in 1..Len(ids) |-> ExportRow(ids[k])]
                             \o ExportSummary(ids)
            IN  res' = Response("exportIssues", c, 0, query, 200, <<worksheet>>)
    /\ UNCHANGED <<users, categories, subcategories, issues, photos, comments,
                   blobs, uploads, nextIssue, nextUpload, now, history, pending>>

(***************************************************************************)
(* login, and the user administration: updateUser, deleteUser.             *)
(***************************************************************************)
\* generateToken for a user.
generateToken(u) == [userId |-> u, signed |-> TRUE]

\* A user is found by email; the model names a user's email by the user's
\* id.  passwordOk is the outcome of comparePassword.
Login(email, passwordOk) ==
    LET req == [email |-> email, passwordOk |-> passwordOk]
    IN  /\ IF email \notin DOMAIN users
           THEN res' = Response("login", Null, 0, req, 401, <<>>)
           ELSE IF ~users[email].isActive
           THEN res' = Response("login", Null, 0, req, 401, <<>>)
           ELSE IF ~passwordOk
           THEN res' = Response("login", Null, 0, req, 401, <<>>)
           ELSE res' = Response("login", Null, 0, req, 200, <<generateToken(email)>>)
        /\ UNCHANGED <<users, categories, subcategories, issues, photos, comments,
                       blobs, uploads, nextIssue, nextUpload, now, history, pending>>

UpdateUser(c, id, body) ==
    /\ IF ~authenticate(c)
       THEN /\ res' = Response("updateUser", c, id, body, 401, <<>>)
            /\ UNCHANGED <<users, history>>
       ELSE IF ~authorize({"ADMIN"}, c)
       THEN /\ res' = Response("updateUser", c, id, body, 403, <<>>)
            /\ UNCHANGED <<users, history>>
       ELSE IF users[c].role # "ADMIN"
       THEN /\ res' = Response("updateUser", c, id, body, 403, <<>>)
            /\ UNCHANGED <<users, history>>
       ELSE IF id \notin DOMAIN users
       THEN /\ res' = Response("updateUser", c, id, body, 404, <<>>)
            /\ UNCHANGED <<users, history>>
       ELSE IF Has(body, "role") /\ body.role \notin UserRole
       THEN \* the UserRole enum refuses the value: update throws
            /\ res' = Response("updateUser", c, id, body, 500, <<>>)
            /\ UNCHANGED <<users, history>>
       ELSE /\ users' = [users EXCEPT
                  ![id].role = IF Has(body, "role") THEN body.role ELSE @,
                  ![id].isActive = IF Has(body, "isActive") THEN body.isActive ELSE @]
            /\ history' = IF Has(body, "isActive") /\ ~body.isActive
                          THEN [history EXCEPT !.deactivated = @ \cup {id}]
                          ELSE history
            /\ res' = Response("updateUser", c, id, body, 200, <<>>)
    /\ UNCHANGED <<categories, subcategories, issues, photos, comments,
                   blobs, uploads, nextIssue, nextUpload, now, pending>>

\* photos_uploadedById_fkey, comments_userId_fkey: ON DELETE RESTRICT
UserStillReferenced(id) ==
    \/ \E p \in photos : p.uploadedById = id
    \/ \E m \in comments : m.userId = id

\* Mutant: the user is taken to have created no issue.
createdIssuesCount_Zero(id) == 0

\* prisma.issue.count({ where: { createdById: id } })
createdIssuesCount(id) ==
    Cardinality({i \in DOMAIN issues : issues[i].createdById = id})

DeleteUser(c, id) ==
    /\ IF ~authenticate(c)
       THEN /\ res' = Response("deleteUser", c, id, <<>>, 401, <<>>)
            /\ UNCHANGED <<users, issues, history>>
       ELSE IF ~authorize({"ADMIN"}, c)
       THEN /\ res' = Response("deleteUser", c, id, <<>>, 403, <<>>)
            /\ UNCHANGED <<users, issues, history>>
       ELSE IF users[c].role # "ADMIN"
       THEN /\ res' = Response("deleteUser", c, id, <<>>, 403, <<>>)
            /\ UNCHANGED <<users, issues, history>>
       ELSE IF id = c
       THEN /\ res' = Response("deleteUser", c, id, <<>>, 400, <<>>)
            /\ UNCHANGED <<users, issues, history>>
       ELSE IF id \notin DOMAIN users
       THEN /\ res' = Response("deleteUser", c, id, <<>>, 404, <<>>)
            /\ UNCHANGED <<users, issues, history>>
       ELSE IF createdIssuesCount(id) > 0
       THEN \* soft delete
            /\ users' = [users EXCEPT ![id].isActive = FALSE]
            /\ history' = [history EXCEPT !.deactivated = @ \cup {id}]
            /\ res' = Response("deleteUser", c, id, <<>>, 200, <<>>)
            /\ UNCHANGED issues
       ELSE IF UserStillReferenced(id)
       THEN /\ res' = Response("deleteUser", c, id, <<>>, 500, <<>>)
            /\ UNCHANGED <<users, issues, history>>
       ELSE \* hard delete; issues_assignedToId_fkey: ON DELETE SET NULL
            /\ users' = [u \in (DOMAIN users) \ {id} |-> users[u]]
            /\ issues' = [i \in DOMAIN issues |->
                             IF issues[i].assignedToId = id
                             THEN [issues[i] EXCEPT !.assignedToId = Null]
                             ELSE issues[i]]
            /\ res' = Response("deleteUser", c, id, <<>>, 200, <<>>)
            /\ UNCHANGED history
    /\ UNCHANGED <<categories, subcategories, photos, comments,
                   blobs, uploads, nextIssue, nextUpload, now, pending>>

(***************************************************************************)
(* register: the handler reads (findFirst), awaits hashPassword, and then  *)
(* writes (create); another request may run between the two.               *)
(***************************************************************************)
\* validate(registerSchema): the required fields are present.  The texts of
\* the model stand for well-formed values.
registerSchema(body) == Has(body, "email") /\ Has(body, "username")

\* prisma.user.findFirst({ where: { OR: [{ email }, { username }] } }); a
\* user's email is the user's id in the model.
existingUser(email, username) ==
    \/ email \in DOMAIN users
    \/ \E u \in DOMAIN users : users[u].username = username

\* users_email_key and users_username_key accept a new row.
UserKeysFree(email, username) ==
    /\ email \notin DOMAIN users
    /\ \A u \in DOMAIN users : users[u].username # username

\* register up to the await of hashPassword.
RegisterStart(body) ==
    /\ IF ~registerSchema(body)
       THEN /\ res' = Response("register", Null, Null, body, 400, <<>>)
            /\ UNCHANGED pending
       ELSE IF existingUser(body.email, body.username)
       THEN /\ res' = Response("register", Null, Null, body, 400, <<>>)
            /\ UNCHANGED pending
       ELSE /\ pending' = pending \cup
                 {[op |-> "register", n |-> FreshRequest, body |-> body]}
            /\ UNCHANGED res
    /\ UNCHANGED <<users, categories, subcategories, issues, photos, comments,
                   blobs, uploads, nextIssue, nextUpload, now, history>>

\* Mutant: a role in the body is stored.
registeredRole_FromBody(body) == IF Has(body, "role") THEN body.role ELSE "USER"

\* role: 'USER' in the data of register's create.
registeredRole(body) == "USER"

\* register from prisma.user.create on: a violated unique index makes
\* create throw, and the catch block answers 500.
RegisterCreate(r) ==
    /\ r \in pending /\ r.op = "register"
    /\ pending' = pending \ {r}
    /\ IF ~UserKeysFree(r.body.email, r.body.username)
       THEN /\ res' = Response("register", Null, Null, r.body, 500, <<>>)
            /\ UNCHANGED users
       ELSE /\ users' = users @@
                 (r.body.email :> [role |-> registeredRole(r.body), username |-> r.body.username,
                                   isActive |-> TRUE])
            /\ res' = Response("register", Null, r.body.email, r.body, 201,
                               <<r.body.email, generateToken(r.body.email)>>)
    /\ UNCHANGED <<categories, subcategories, issues, photos, comments,
                   blobs, uploads, nextIssue, nextUpload, now, history>>

\* updateProfile writes firstName, lastName and phone of the caller's own
\* row, none of which the model holds; role and isActive are not in its
\* data whatever the body carries.
UpdateProfile(c, body) ==
    /\ IF ~authenticate(c)
       THEN res' = Response("updateProfile", c, c, body, 401, <<>>)
       ELSE res' = Response("updateProfile", c, c, body, 200, <<c>>)
    /\ UNCHANGED <<users, categories, subcategories, issues, photos, comments,
                   blobs, uploads, nextIssue, nextUpload, now, history, pending>>

(***************************************************************************)
(* The user routes: getAllUsers, getUserById, createUser.                  *)
(***************************************************************************)
GetAllUsers(c) ==
    /\ IF ~authenticate(c)
       THEN res' = Response("getAllUsers", c, Null, <<>>, 401, <<>>)
       ELSE IF ~authorize({"ADMIN", "SUPERVISOR", "OFFICE"}, c)
       THEN res' = Response("getAllUsers", c, Null, <<>>, 403, <<>>)
       ELSE IF users[c].role = "USER"
       THEN res' = Response("getAllUsers", c, Null, <<>>, 403, <<>>)
       ELSE res' = Response("getAllUsers", c, Null, <<>>, 200, <<DOMAIN users>>)
    /\ UNCHANGED <<users, categories, subcategories, issues, photos, comments,
                   blobs, uploads, nextIssue, nextUpload, now, history, pending>>

\* The permission check of getUserById.
canViewProfile(c, id) == ~(users[c].role = "USER" /\ id # c)

GetUserById(c, id) ==
    /\ IF ~authenticate(c)
       THEN res' = Response("getUserById", c, id, <<>>, 401, <<>>)
       ELSE IF ~canViewProfile(c, id)
       THEN res' = Response("getUserById", c, id, <<>>, 403, <<>>)
       ELSE IF id \notin DOMAIN users
       THEN res' = Response("getUserById", c, id, <<>>, 404, <<>>)
       ELSE res' = Response("getUserById", c, id, <<>>, 200, <<id>>)
    /\ UNCHANGED <<users, categories, subcategories, issues, photos, comments,
                   blobs, uploads, nextIssue, nextUpload, now, history, pending>>

\* createUser: the route has no validate(); the role of the body is stored
\* as given, and a value outside the UserRole enum makes create throw.
CreateUser(c, body) ==
    /\ IF ~authenticate(c)
       THEN /\ res' = Response("createUser", c, Null, body, 401, <<>>)
            /\ UNCHANGED users
       ELSE IF ~authorize({"ADMIN"}, c)
       THEN /\ res' = Response("createUser", c, Null, body, 403, <<>>)
            /\ UNCHANGED users
       ELSE IF existingUser(body.email, body.username)
       THEN /\ res' = Response("createUser", c, Null, body, 400, <<>>)
            /\ UNCHANGED users
       ELSE IF Has(body, "role") /\ body.role \notin UserRole
       THEN /\ res' = Response("createUser", c, Null, body, 500, <<>>)
            /\ UNCHANGED users
       ELSE /\ users' = users @@
                 (body.email :> [role |-> IF Has(body, "role") THEN body.role ELSE "USER",
                                 username |-> body.username,
                                 isActive |-> TRUE])
            /\ res' = Response("createUser", c, body.email, body, 201, <<body.email>>)
    /\ UNCHANGED <<categories, subcategories, issues, photos, comments,
                   blobs, uploads, nextIssue, nextUpload, now, history, pending>>

(***************************************************************************)
(* The clock read by new Date() and Date.now().                            *)
(***************************************************************************)
Tick ==
    /\ now < MaxClock
    /\ now' = now + 1
    /\ UNCHANGED <<users, categories, subcategories, issues, photos, comments,
                   blobs, uploads, nextIssue, nextUpload, res, history, pending>>

(***************************************************************************)
(* Spec: the status lifecycle of issues under createIssue, importIssues    *)
(* and updateIssue, with the clock advancing between requests.             *)
(***************************************************************************)
BasicBody ==
    [title |-> TitleRoad, description |-> DescriptionOk, address |-> AddressOk,
     categoryId |-> "c1"]

ImportHeader == <<"Title", "Description", "Address", "Category">>

ImportRowOk == <<TitleLamp, DescriptionOk, AddressPark, "Roads">>

LifecycleDocs ==
    {<<ImportHeader, ImportRowOk>>,
     <<ImportHeader, [ImportRowOk EXCEPT ![3] = ""], [ImportRowOk EXCEPT ![4] = "Water"]>>}

LifecycleBodies == {[status |-> s] : s \in IssueStatus}

Next ==
    \/ \E c \in {"u1"} :
          nextIssue <= MaxIssues /\ CreateIssue(c, BasicBody)
    \/ \E c \in {"a1", "o1"}, doc \in LifecycleDocs :
          nextIssue + Len(doc) <= MaxIssues + 2 /\ ImportIssues(c, Some(doc))
    \/ \E c \in {"u1", "s1"}, id \in 1..MaxIssues, body \in LifecycleBodies :
          UpdateIssue(c, id, body)
    \/ Tick

Spec == Init /\ [][Next]_vars

\* C1: every stored issue has completedAt non-null if and only if its
\* current status is COMPLETED.
C1_CompletedAtIffCompleted ==
    \A i \in DOMAIN issues :
        (issues[i].completedAt # None) <=> (issues[i].status = "COMPLETED")

(***************************************************************************)
(* SpecFields: which fields createIssue and updateIssue write, for a       *)
(* citizen (creator or not) and for staff, over payloads that name         *)
(* permitted fields, forbidden fields and fields of no schema.             *)
(***************************************************************************)
EmergencyBody == BasicBody @@ [isEmergency |-> TRUE, priority |-> "LOW"]

FullBody ==
    [title |-> TitleLamp, description |-> DescriptionOk, address |-> AddressPark,
     latitude |-> 38, longitude |-> 24, status |-> "COMPLETED", priority |-> "HIGH",
     assignedToId |-> "s1", categoryId |-> "c2", subcategoryId |-> "sc2",
     isEmergency |-> TRUE, completedAt |-> Some(1), createdById |-> "u2"]

ForbiddenBody ==
    [status |-> "COMPLETED", priority |-> "HIGH", assignedToId |-> "s1",
     categoryId |-> "c2", subcategoryId |-> "sc2", isEmergency |-> TRUE]

FieldBodies ==
    {[title |-> TitleLamp],
     [isEmergency |-> TRUE, priority |-> "LOW"],
     [title |-> ""],
     ForbiddenBody,
     FullBody}

FieldNext ==
    \/ \E c \in {"u1"}, body \in {BasicBody, EmergencyBody} :
          nextIssue <= MaxFieldIssues /\ CreateIssue(c, body)
    \/ \E c \in {"u1", "u2", "s1"}, id \in 1..MaxFieldIssues, body \in FieldBodies :
          UpdateIssue(c, id, body)

SpecFields == Init /\ [][FieldNext]_vars

\* C2: right after a successful createIssue or updateIssue, the issue it
\* wrote has priority EMERGENCY whenever its isEmergency flag is true.
C2_EmergencyForcesPriority ==
    (res.op \in {"createIssue", "updateIssue"} /\ res.code \in {200, 201})
        => (issues[res.id].isEmergency => issues[res.id].priority = "EMERGENCY")

\* The fields of an issue a citizen's update must leave alone.
ProtectedFields ==
    {"status", "priority", "assignedToId", "categoryId", "subcategoryId",
     "isEmergency", "completedAt"}

LampBody == [BasicBody EXCEPT !.title = TitleLamp]

\* The citizen reports a road, the supervisor a lamp.
AccessCreates == {<<"u1", BasicBody>>, <<"s1", LampBody>>}

AccessQueries ==
    {<<>>,
     [search |-> "r"],
     [search |-> "zz"],
     [createdById |-> "s1"],
     [assignedToId |-> "o1"],
     [search |-> "LA"],
     [createdById |-> "s1", assignedToId |-> "o1", search |-> "r"],
     [status |-> {"PENDING"}, isEmergency |-> "false", dateFrom |-> 1],
     [page |-> 2, limit |-> 1]}

AccessNext ==
    \/ \E cb \in AccessCreates :
          nextIssue <= MaxAccessIssues /\ CreateIssue(cb[1], cb[2])
    \/ \E id \in 1..MaxAccessIssues, a \in {"s1", "o1"} :
          UpdateIssue("a1", id, [assignedToId |-> a])
    \/ \E c \in {"u1", "s1", "o1"}, query \in AccessQueries : GetIssues(c, query)
    \/ \E c \in {"u1", "s1", "o1"}, id \in 1..MaxAccessIssues : GetIssueById(c, id)
    \/ \E c \in {"u1", "s1"}, id \in 1..MaxAccessIssues : GetIssueStats(c, id)

SpecAccess == Init /\ [][AccessNext]_vars

\* The issues a getIssues answer lists.
Returned == {res.data[k] : k \in 1..Len(res.data)}

\* C3: every issue a getIssues answer gives a SUPERVISOR is assigned to the
\* requester, unassigned, or created by the requester.
C3_SupervisorListScope ==
    (res.op = "getIssues" /\ res.code = 200 /\ users[res.user].role = "SUPERVISOR")
        => \A i \in Returned :
              \/ issues[i].assignedToId = res.user
              \/ issues[i].assignedToId = Null
              \/ issues[i].createdById = res.user

\* C4: every issue a getIssues answer gives a USER was created by the
\* requester, whatever filters the request carried.
C4_UserListScope ==
    (res.op = "getIssues" /\ res.code = 200 /\ users[res.user].role = "USER")
        => \A i \in Returned : issues[i].createdById = res.user

\* A citizen asked for the supervisor's issues assigned to the office that
\* match a search term; such an issue exists, and the answer lists only the
\* citizen's own.
C4_Witness ==
    /\ res.op = "getIssues" /\ res.code = 200
    /\ users[res.user].role = "USER"
    /\ res.req = [createdById |-> "s1", assignedToId |-> "o1", search |-> "r"]
    /\ Returned # {}
    /\ \E i \in DOMAIN issues :
          issues[i].createdById = "s1" /\ issues[i].assignedToId = "o1"

\* The list-visibility rule of a role, as getIssues applies it.
ListVisible(c, issue) == Matches(issue, RoleWhere(c))

\* C5: getIssueById on an existing issue answers 200 exactly when the issue
\* satisfies the caller's list-visibility rule, and 403 otherwise.
C5_SingleReadMatchesListRule ==
    (res.op = "getIssueById" /\ res.code \in {200, 403})
        => /\ res.code = 200 <=> ListVisible(res.user, issues[res.id])
           /\ res.code = 403 <=> ~ListVisible(res.user, issues[res.id])

\* C6: a USER who did not create an existing issue is answered 403, with no
\* data, by getIssueById and by getIssueStats.
C6_ForeignIssueForbidden ==
    (/\ res.op \in {"getIssueById", "getIssueStats"}
     /\ res.code # 401
     /\ users[res.user].role = "USER"
     /\ res.id \in DOMAIN issues
     /\ issues[res.id].createdById # res.user)
        => (res.code = 403 /\ res.data = <<>>)

\* A citizen asked for the statistics of an issue the supervisor created and
\* was refused.
C6_Witness ==
    /\ res.op = "getIssueStats" /\ res.code = 403
    /\ users[res.user].role = "USER"
    /\ res.id \in DOMAIN issues
    /\ issues[res.id].createdById = "s1"

(***************************************************************************)
(* SpecPhoto: uploadPhotos requests interleaved at their awaits with each  *)
(* other and with an administrator's deleteIssue.                          *)
(***************************************************************************)
FileCounts == {0, 3}

PhotoNext ==
    \/ nextIssue <= MaxPhotoIssues /\ CreateIssue("u1", BasicBody)
    \/ \E c \in {"u1", "u2"}, id \in 1..MaxPhotoIssues, n \in FileCounts :
          nextUpload <= MaxUploads /\ UploadStart(c, id, n)
    \/ \E r \in DOMAIN uploads : UploadCount(r)
    \/ \E r \in DOMAIN uploads : UploadCreate(r)
    \/ \E id \in 1..MaxPhotoIssues : DeleteIssue("a1", id)

SpecPhoto == Init /\ [][PhotoNext]_vars

(***************************************************************************)
(* SpecDelete: deleteIssue by every role, on issues that carry photos and  *)
(* comments.                                                               *)
(***************************************************************************)
DeleteNext ==
    \/ nextIssue <= MaxDeleteIssues /\ CreateIssue("u1", BasicBody)
    \/ \E id \in 1..MaxDeleteIssues :
          (\A m \in comments : m.issueId # id) /\ InsertComment("s1", id, TRUE)
    \/ \E id \in 1..MaxDeleteIssues :
          nextUpload <= MaxUploads /\ PhotoCount(id) = 0 /\ UploadStart("u1", id, 3)
    \/ \E r \in DOMAIN uploads : UploadCount(r)
    \/ \E r \in DOMAIN uploads : UploadCreate(r)
    \/ \E c \in DOMAIN SeedUsers, id \in 1..MaxDeleteIssues : DeleteIssue(c, id)

SpecDelete == Init /\ [][DeleteNext]_vars

\* C8: deleteIssue on an existing issue removes it and answers 200 exactly
\* when the caller is ADMIN or is a USER who created it; for every other
\* caller it answers 403 and the issue, its photos and its comments remain.
C8_DeleteOnlyAdminOrOwner ==
    [][\A c \in DOMAIN users, id \in DOMAIN issues :
          DeleteIssue(c, id)
              => IF \/ users[c].role = "ADMIN"
                    \/ users[c].role = "USER" /\ issues[id].createdById = c
                 THEN /\ res'.code = 200
                      /\ id \notin DOMAIN issues'
                 ELSE /\ res'.code = 403
                      /\ issues' = issues
                      /\ photos' = photos
                      /\ comments' = comments]_vars

\* The office was refused the deletion of an issue that carries three photos
\* and a comment.
C8_Witness ==
    /\ res.op = "deleteIssue" /\ res.code = 403
    /\ users[res.user].role = "OFFICE"
    /\ res.id \in DOMAIN issues
    /\ PhotoCount(res.id) = 3
    /\ \E m \in comments : m.issueId = res.id

\* C9: no issue ever has more Photo records than the per-issue maximum.
C9_PhotoLimit ==
    \A id \in DOMAIN issues : PhotoCount(id) <= MaxPhotosPerIssue

\* C10: when photo.count resolves for a request whose files would take the
\* issue over the maximum, the request ends there answered 400, no Photo
\* record is written, and of its files only those whose unlinkSync threw
\* are left in the blob store.
C10_RejectedBatch ==
    [][\A r \in DOMAIN uploads :
          (/\ UploadCount(r)
           /\ PhotoCount(uploads[r].issueId) + uploads[r].files > MaxPhotosPerIssue)
              => /\ res'.op = "uploadPhotos" /\ res'.req.upload = r /\ res'.code = 400
                 /\ r \notin DOMAIN uploads'
                 /\ photos' = photos
                 /\ Cardinality(FilesOf(r, uploads[r].files) \cap blobs')
                        <= MaxUnlinkFailures]_vars

\* A batch of three was refused on an issue that already has three photos;
\* one of its files could not be deleted and the others are gone.
C10_Witness ==
    /\ res.op = "uploadPhotos" /\ res.code = 400 /\ res.req.files = 3
    /\ res.id \in DOMAIN issues
    /\ PhotoCount(res.id) = 3
    /\ Cardinality(FilesOf(res.req.upload, 3) \cap blobs) = 1

(***************************************************************************)
(* SpecGallery: who may add, view and delete the photos of an issue.  A    *)
(* citizen's issue is assigned to the office; a supervisor and a second    *)
(* citizen send one-file uploads; everyone views and deletes.              *)
(***************************************************************************)
GalleryFiles == {<<r, 1>> : r \in 1..MaxUploads}

GalleryNext ==
    \/ nextIssue <= MaxGalleryIssues /\ CreateIssue("u1", BasicBody)
    \/ \E id \in 1..MaxGalleryIssues :
          UpdateIssue("a1", id, [assignedToId |-> "o1"])
    \/ \E c \in {"u2", "s1"}, id \in 1..MaxGalleryIssues :
          nextUpload <= MaxUploads /\ UploadStart(c, id, 1)
    \/ \E r \in DOMAIN uploads : UploadCount(r)
    \/ \E r \in DOMAIN uploads : UploadCreate(r)
    \/ \E c \in {"u1", "u2", "s1"}, f \in GalleryFiles : GetPhoto(c, f)
    \/ \E c \in DOMAIN SeedUsers, f \in GalleryFiles : DeletePhoto(c, f)

SpecGallery == Init /\ [][GalleryNext]_vars

\* C11: deletePhoto on an existing photo removes it and answers 200 exactly
\* when the caller is ADMIN, uploaded the photo, or is a USER who created the
\* owning issue; any other caller is answered 403 and the photo record and
\* its file remain.
C11_DeletePhotoPermission ==
    [][\A c \in DOMAIN users, p \in photos :
          DeletePhoto(c, p.path)
              => IF \/ users[c].role = "ADMIN"
                    \/ p.uploadedById = c
                    \/ users[c].role = "USER" /\ issues[p.issueId].createdById = c
                 THEN res'.code = 200 /\ p \notin photos'
                 ELSE res'.code = 403 /\ photos' = photos /\ blobs' = blobs]_vars

\* The office was refused the deletion of a photo the supervisor uploaded;
\* the record and the file are still there.
C11_Witness ==
    /\ res.op = "deletePhoto" /\ res.code = 403
    /\ users[res.user].role = "OFFICE"
    /\ \E p \in photos : p.path = res.req.photo /\ p.uploadedById = "s1"
    /\ res.req.photo \in blobs

\* C12: uploadPhotos and getPhoto answer 403, creating and serving nothing,
\* whenever the owning issue is not visible to the caller under the rule of
\* the issue list.
C12_PhotoFollowsIssueVisibility ==
    [][/\ \A c \in DOMAIN users, id \in DOMAIN issues, n \in 1..MaxFilesPerRequest :
             (UploadStart(c, id, n) /\ ~ListVisible(c, issues[id]))
                 => res'.code = 403 /\ uploads' = uploads
       /\ \A c \in DOMAIN users, p \in photos :
             (GetPhoto(c, p.path) /\ ~ListVisible(c, issues[p.issueId]))
                 => res'.code = 403]_vars

(***************************************************************************)
(* SpecCategory: the administrator retires subcategories and categories    *)
(* while citizens file issues under them.                                  *)
(***************************************************************************)
CategoryBodies ==
    {BasicBody,
     [title |-> TitleLamp, description |-> DescriptionOk, address |-> AddressPark,
      categoryId |-> "c2", subcategoryId |-> "sc2"]}

SubcategoryBodies ==
    {[name |-> n, categoryId |-> k] : n \in {"Pothole", "Crack"}, k \in {"c1", "c2"}}

CategoryNext ==
    \/ \E body \in CategoryBodies :
          nextIssue <= MaxCategoryIssues /\ CreateIssue("u1", body)
    \/ \E id \in 1..MaxCategoryIssues : DeleteIssue("a1", id)
    \/ \E c \in {"a1", "o1"}, body \in SubcategoryBodies :
          (SubcategoryIds \ DOMAIN subcategories # {}) /\ CreateSubcategory(c, body)
    \/ \E sid \in DOMAIN subcategories : DeleteSubcategory("a1", sid)
    \/ \E c \in {"a1", "s1"}, id \in DOMAIN categories : DeleteCategory(c, id)

SpecCategory == Init /\ [][CategoryNext]_vars

\* No active subcategory belongs to an inactive category.
NoActiveSubcategoryOfInactiveCategory ==
    \A s \in DOMAIN subcategories :
        subcategories[s].isActive => categories[subcategories[s].categoryId].isActive

\* C13: deleteCategory by the administrator on an active category answers
\* 400 and changes no category or subcategory when an issue references the
\* category; otherwise it deactivates the category and each of its
\* subcategories, and no active subcategory is left under an inactive
\* category.
C13_DeleteCategory ==
    [][\A c \in DOMAIN users, id \in DOMAIN categories :
          (/\ DeleteCategory(c, id)
           /\ users[c].role = "ADMIN"
           /\ categories[id].isActive)
              => IF \E i \in DOMAIN issues : issues[i].categoryId = id
                 THEN /\ res'.code = 400
                      /\ categories' = categories
                      /\ subcategories' = subcategories
                 ELSE /\ res'.code = 200
                      /\ ~categories'[id].isActive
                      /\ \A s \in DOMAIN subcategories' :
                            subcategories'[s].categoryId = id
                                => ~subcategories'[s].isActive
                      /\ NoActiveSubcategoryOfInactiveCategory']_vars

\* A category with three subcategories, one of them added after seeding,
\* was deleted: it and all three are inactive.
C13_Witness ==
    /\ res.op = "deleteCategory" /\ res.code = 200
    /\ ~categories[res.id].isActive
    /\ Cardinality({s \in DOMAIN subcategories :
                       subcategories[s].categoryId = res.id}) = 3
    /\ \A s \in DOMAIN subcategories :
          subcategories[s].categoryId = res.id => ~subcategories[s].isActive

(***************************************************************************)
(* SpecImport: a citizen files issues, the administrator imports           *)
(* worksheets and deletes issues, while the clock advances.                *)
(***************************************************************************)
\* Three data rows, the second with a blank address.
ScenarioWorksheet ==
    <<ImportHeader,
      ImportRowOk,
      [ImportRowOk EXCEPT ![3] = ""],
      <<TitleRoad, DescriptionOk, AddressOk, "Light">>>>

\* Two data rows, neither importable.
HopelessWorksheet ==
    <<ImportHeader,
      [ImportRowOk EXCEPT ![4] = "Water"],
      <<TitleRoad>>>>

ImportFiles == {None, Some(ScenarioWorksheet), Some(HopelessWorksheet)}

ImportNext ==
    \/ nextIssue <= MaxImportIssues /\ CreateIssue("u1", BasicBody)
    \/ \E c \in {"a1", "o1"}, file \in ImportFiles :
          nextIssue <= MaxImportIssues /\ ImportIssues(c, file)
    \/ \E id \in DOMAIN issues : DeleteIssue("a1", id)
    \/ Tick

SpecImport == Init /\ [][ImportNext]_vars

\* The data rows of a worksheet are its rows after the header.
DataRows(worksheet) == IF Len(worksheet) = 0 THEN 0 ELSE Len(worksheet) - 1

\* C14: an import by the administrator answers 200 with a report in which
\* successful + failed is the number of data rows and errors holds one
\* message per failed row in row order; every row is either reported or
\* imported, whatever happened to the rows before it, and the issues that
\* existed before are kept.
C14_ImportRowsIndependent ==
    [][\A c \in DOMAIN users, file \in ImportFiles \ {None} :
          (ImportIssues(c, file) /\ users[c].role = "ADMIN")
              => LET report == res'.data[1]
                     added == (DOMAIN issues') \ (DOMAIN issues)
                 IN  /\ res'.code = 200
                     /\ report.successful + report.failed = DataRows(file[1])
                     /\ Len(report.errors) = report.failed
                     /\ \A j, k \in 1..Len(report.errors) :
                           j < k => report.errors[j].row < report.errors[k].row
                     /\ \A i \in DOMAIN issues :
                           i \in DOMAIN issues' /\ issues'[i] = issues[i]
                     /\ Cardinality(added) = report.successful
                     /\ \A rowNumber \in 2..Len(file[1]) :
                           (\E k \in 1..Len(report.errors) :
                                report.errors[k].row = rowNumber)
                           <=> ~(\E i \in added :
                                    issues'[i].referenceNumber = <<"IMP", now, rowNumber>>)]_vars

\* The scenario worksheet was imported a second time within the same
\* instant: every row failed, two of them at issue creation, and the
\* answer is still 200 with three messages.
C14_Witness ==
    /\ res.op = "importIssues" /\ res.code = 200
    /\ res.req = Some(ScenarioWorksheet)
    /\ res.data[1].successful = 0 /\ res.data[1].failed = 3
    /\ Len(res.data[1].errors) = 3
    /\ res.data[1].errors[1].message = "Unique constraint failed"
    /\ Cardinality(DOMAIN issues) = 2

\* C15: importing the three-row worksheet whose second data row has a
\* blank address, the other two rows being imported, reports exactly
\* successful 2, failed 1 and the one message "Row 2: Missing required
\* fields".
C15_ErrorRowsCountDataRows ==
    (/\ res.op = "importIssues" /\ res.code = 200
     /\ res.req = Some(ScenarioWorksheet)
     /\ res.data[1].successful = 2)
        => res.data[1] =
              [successful |-> 2, failed |-> 1,
               errors |-> <<[row |-> 2, message |-> "Missing required fields"]>>]

(***************************************************************************)
(* SpecExcel: citizens file issues, a supervisor completes them, and every *)
(* role asks for an export and sends an import, of a hand-made worksheet   *)
(* or of the document the last export produced.                            *)
(***************************************************************************)
ExcelBodies ==
    {BasicBody,
     [title |-> TitleLamp, description |-> DescriptionOk, address |-> AddressPark,
      categoryId |-> "c2", subcategoryId |-> "sc2", isEmergency |-> TRUE]}

CompletedEmergencies == [status |-> {"COMPLETED"}, isEmergency |-> "true"]

ExportQueries ==
    {<<>>,
     CompletedEmergencies,
     [isEmergency |-> "false", categoryId |-> "c1"],
     [priority |-> {"EMERGENCY", "HIGH"}, subcategoryId |-> "sc2", dateFrom |-> 2,
      dateTo |-> 2]}

\* The files an import may carry: a one-row worksheet or the document of
\* the unfiltered export just answered.
ExcelFiles ==
    {Some(<<ImportHeader, ImportRowOk>>)}
    \cup (IF res.op = "exportIssues" /\ res.code = 200 /\ res.req = <<>>
          THEN {Some(res.data[1])} ELSE {})

ExcelNext ==
    \/ \E body \in ExcelBodies :
          nextIssue <= MaxExcelIssues /\ CreateIssue("u1", body)
    \/ \E id \in DOMAIN issues :
          issues[id].status # "COMPLETED"
              /\ UpdateIssue("s1", id, [status |-> "COMPLETED"])
    \/ \E query \in ExportQueries : ExportIssues("o1", query)
    \/ \E c \in {"a1", "s1", "u1"} : ExportIssues(c, CompletedEmergencies)
    \/ \E file \in ExcelFiles :
          nextIssue <= MaxExcelIssues /\ ImportIssues("a1", file)
    \/ \E c \in {"s1", "o1", "u1"} :
          ImportIssues(c, Some(<<ImportHeader, ImportRowOk>>))
    \/ issues # <<>> /\ Tick

SpecExcel == Init /\ [][ExcelNext]_vars

\* C16: an import of the document an export produced reports no
\* "Category ... not found" error (no category is ever deactivated here).
C16_ExportImportRoundTrip ==
    (/\ res.op = "importIssues" /\ res.code = 200
     /\ res.req[1][1] = ExportHeader)
        => \A k \in 1..Len(res.data[1].errors) :
              res.data[1].errors[k].message # "Category not found"

\* An issue passes every filter the query supplies.
PassesEveryFilter(issue, query) ==
    /\ Has(query, "status") => issue.status \in query.status
    /\ Has(query, "priority") => issue.priority \in query.priority
    /\ Has(query, "categoryId") => issue.categoryId = query.categoryId
    /\ Has(query, "subcategoryId") => issue.subcategoryId = query.subcategoryId
    /\ Has(query, "dateFrom") => issue.createdAt >= query.dateFrom
    /\ Has(query, "dateTo") => issue.createdAt <= query.dateTo
    /\ Has(query, "isEmergency") => issue.isEmergency = (query.isEmergency = "true")

\* C17: the data rows of an export are exactly the stored issues that pass
\* every supplied filter, the summary total is their number, and for
\* status=COMPLETED and isEmergency=true so is the emergency count.
C17_ExportFiltersConjoined ==
    [][\A c \in DOMAIN users, query \in ExportQueries :
          (/\ res'.op = "exportIssues" /\ res'.user = c /\ res'.code = 200
           /\ ExportIssues(c, query))
              => LET worksheet == res'.data[1]
                     passing == {i \in DOMAIN issues : PassesEveryFilter(issues[i], query)}
                     n == Cardinality(passing)
                 IN  /\ Len(worksheet) >= n + 6
                     /\ {worksheet[k][1] : k \in 2..(n + 1)}
                           = {ReferenceText(issues[i].referenceNumber) : i \in passing}
                     /\ worksheet[n + 2] = <<>>
                     /\ worksheet[n + 5] = <<"Synolo Anaforon:", ToString(n)>>
                     /\ query = CompletedEmergencies
                           => worksheet[Len(worksheet)] = <<"Epeigonta:", ToString(n)>>]_vars

\* Of two stored issues only the completed emergency was exported.
C17_Witness ==
    /\ res.op = "exportIssues" /\ res.code = 200
    /\ res.req = CompletedEmergencies
    /\ Cardinality(DOMAIN issues) = 2
    /\ \E i \in DOMAIN issues : issues[i].status = "COMPLETED" /\ ~issues[i].isEmergency
    /\ \E i \in DOMAIN issues :
          /\ issues[i].status = "COMPLETED" /\ issues[i].isEmergency
          /\ res.data[1][2][1] = ReferenceText(issues[i].referenceNumber)
    /\ res.data[1][3] = <<>>

\* C18: an export is produced exactly for SUPERVISOR, OFFICE and ADMIN
\* callers and an import is run exactly for ADMIN callers; everyone else
\* is answered 403, and a refused import creates no issue.
C18_ExcelRoles ==
    [][/\ \A c \in DOMAIN users, query \in ExportQueries :
             (res'.op = "exportIssues" /\ res'.user = c /\ ExportIssues(c, query))
                 => IF users[c].role \in {"SUPERVISOR", "OFFICE", "ADMIN"}
                    THEN res'.code = 200
                    ELSE res'.code = 403
       /\ \A c \in DOMAIN users, file \in ExcelFiles :
             (res'.op = "importIssues" /\ res'.user = c /\ ImportIssues(c, file))
                 => IF users[c].role = "ADMIN"
                    THEN res'.code = 200
                    ELSE res'.code = 403 /\ issues' = issues /\ nextIssue' = nextIssue]_vars

\* The office sent a worksheet with an importable row and was refused;
\* nothing was imported.
C18_Witness ==
    /\ res.op = "importIssues" /\ res.code = 403
    /\ users[res.user].role = "OFFICE"
    /\ res.req = Some(<<ImportHeader, ImportRowOk>>)
    /\ issues = <<>>

\* An issue keeps its reference number.
ReferenceStable ==
    \A i \in (DOMAIN issues) \cap (DOMAIN issues') :
        issues'[i].referenceNumber = issues[i].referenceNumber

\* No two stored issues share a reference number.
ReferenceUnique ==
    \A i, j \in DOMAIN issues :
        issues[i].referenceNumber = issues[j].referenceNumber => i = j

\* No stored issue carries the reference number of a deleted issue.
ReferenceNeverReused ==
    \A i \in DOMAIN issues : issues[i].referenceNumber \notin history.retired

Tokens ==
    {None,
     [userId |-> "u1", signed |-> FALSE],
     generateToken("u1"), generateToken("u2"), generateToken("a1")}

UserBodies == {[isActive |-> FALSE], [isActive |-> TRUE]}

AuthNext ==
    \/ \E email \in {"u1", "u2", "x1"}, passwordOk \in BOOLEAN : Login(email, passwordOk)
    \/ \E token \in Tokens :
          nextIssue <= MaxAuthIssues /\ CreateIssue(Bearer(token), BasicBody)
    \/ \E token \in Tokens : GetIssues(Bearer(token), <<>>)
    \/ \E token \in Tokens, id \in 1..MaxAuthIssues : GetIssueById(Bearer(token), id)
    \/ \E token \in Tokens : ExportIssues(Bearer(token), <<>>)
    \/ \E token \in Tokens : DeleteCategory(Bearer(token), "c2")
    \/ \E token \in Tokens, id \in {"u1", "u2"}, body \in UserBodies :
          UpdateUser(Bearer(token), id, body)
    \/ \E token \in Tokens, id \in {"u1", "u2", "a1"} : DeleteUser(Bearer(token), id)

SpecAuth == Init /\ [][AuthNext]_vars

\* The token is verifiable and its user exists and is active.
Authentic(token) ==
    /\ token # None
    /\ token.signed
    /\ token.userId \in DOMAIN users
    /\ users[token.userId].isActive

\* The request is answered 401 and nothing is written.
Unauthenticated ==
    /\ res'.code = 401
    /\ UNCHANGED <<users, categories, subcategories, issues, photos, comments,
                   blobs, uploads, nextIssue, nextUpload>>

\* C20, as the code keeps it: a request whose token is absent, does not
\* verify, or names a user that does not exist or is inactive at that
\* moment is answered 401 with nothing written, and so is a login for a
\* user that is inactive at that moment.
C20_InactiveMeansUnauthenticated ==
    [][/\ \A token \in Tokens :
             ~Authentic(token)
                 => LET c == Bearer(token)
                    IN  /\ CreateIssue(c, BasicBody) => Unauthenticated
                        /\ GetIssues(c, <<>>) => Unauthenticated
                        /\ \A id \in 1..MaxAuthIssues :
                              GetIssueById(c, id) => Unauthenticated
                        /\ ExportIssues(c, <<>>) => Unauthenticated
                        /\ DeleteCategory(c, "c2") => Unauthenticated
                        /\ \A id \in {"u1", "u2"}, body \in UserBodies :
                              UpdateUser(c, id, body) => Unauthenticated
                        /\ \A id \in {"u1", "u2", "a1"} :
                              DeleteUser(c, id) => Unauthenticated
       /\ \A email \in {"u1", "u2"}, passwordOk \in BOOLEAN :
             (Login(email, passwordOk) /\ email \in DOMAIN users /\ ~users[email].isActive)
                 => Unauthenticated]_vars

\* The citizen who filed an issue was deactivated, and the next request
\* with the citizen's token was answered 401.
C20_Witness ==
    /\ res.op = "getIssues" /\ res.code = 401 /\ res.user = "u1"
    /\ "u1" \in DOMAIN users /\ ~users["u1"].isActive
    /\ \E i \in DOMAIN issues : issues[i].createdById = "u1"

\* C20, as stated: once a user has been deactivated, every answer to a
\* request with that user's token, and to a login for that user, is 401.
C20_OnceDeactivatedAlwaysRefused ==
    \A u \in {"u1", "u2"} :
        (/\ u \in history.deactivated
         /\ \/ res.user = u
            \/ res.op = "login" /\ res.req.email = u)
            => res.code = 401

(***************************************************************************)
(* SpecUsers: the administration of users next to the issues they created  *)
(* and the issues assigned to them.                                        *)
(***************************************************************************)
MaxUserIssues == 1

AssignBodies == {[assignedToId |-> u] : u \in {"o1", "u2"}}

RoleBodies == {[role |-> "USER"], [role |-> "SUPERVISOR"]}

UsersNext ==
    \/ \E c \in {"u1", "u2"} :
          nextIssue <= MaxUserIssues /\ CreateIssue(c, BasicBody)
    \/ \E c \in {"s1", "u1"}, id \in 1..MaxUserIssues, body \in AssignBodies :
          UpdateIssue(c, id, body)
    \/ \E id \in 1..MaxUserIssues : DeleteIssue("a1", id)
    \/ \E c \in {"a1", "s1"}, id \in {"o1", "u2"}, body \in RoleBodies :
          UpdateUser(c, id, body)
    \/ \E c \in {"a1", "s1"}, id \in {"a1", "o1", "u1", "u2"} : DeleteUser(c, id)

SpecUsers == Init /\ [][UsersNext]_vars

\* C21: deleteUser by an ADMIN on another existing user that has created
\* an issue answers 200, sets the user's isActive to false and keeps the
\* record and the issues; a user record leaves the users table only when
\* no issue has that user as creator; and after every step every issue's
\* createdById is the id of a user record.
C21_DeleteUserKeepsCreators ==
    [][/\ \A id \in {"o1", "u1", "u2"} :
             (/\ DeleteUser("a1", id)
              /\ id \in DOMAIN users
              /\ \E i \in DOMAIN issues : issues[i].createdById = id)
                 => /\ res'.code = 200
                    /\ users' = [users EXCEPT ![id].isActive = FALSE]
                    /\ issues' = issues
       /\ \A u \in DOMAIN users :
             u \notin DOMAIN users'
                 => \A i \in DOMAIN issues : issues[i].createdById # u
       /\ \A i \in DOMAIN issues' : issues'[i].createdById \in DOMAIN users']_vars

\* The citizen who created the stored issue was deactivated by deleteUser
\* and is still a record, while the other citizen, who created nothing,
\* was removed.
C21_Witness ==
    /\ res.op = "deleteUser" /\ res.code = 200 /\ res.user = "a1"
    /\ \E i \in DOMAIN issues : issues[i].createdById = "u1"
    /\ "u1" \in DOMAIN users /\ ~users["u1"].isActive
    /\ "u2" \notin DOMAIN users

\* C23: every issue whose assignedToId is set is assigned to a user whose
\* role is SUPERVISOR, OFFICE or ADMIN.
C23_AssigneeIsStaff ==
    \A i \in DOMAIN issues :
        issues[i].assignedToId # Null
            => /\ issues[i].assignedToId \in DOMAIN users
               /\ users[issues[i].assignedToId].role \in {"SUPERVISOR", "OFFICE", "ADMIN"}

(***************************************************************************)
(* SpecRegister: registrations, each one in two steps, so that two of them *)
(* may both have read the users table before either writes.                *)
(***************************************************************************)
MaxPending == 2

RegisterBodies ==
    {[email |-> e, username |-> n] : e \in {"n1", "n2"}, n \in {"m1", "m2"}}
        \cup {[email |-> "u1", username |-> "m1"],
              [email |-> "n1", username |-> "u2"],
              [email |-> "n2", username |-> "m2", role |-> "ADMIN"],
              [email |-> "n1"]}

RegisterNext ==
    \/ \E body \in RegisterBodies :
          Cardinality(pending) < MaxPending /\ RegisterStart(body)
    \/ \E r \in pending : RegisterCreate(r)

SpecRegister == Init /\ [][RegisterNext]_vars

\* C22: a register request whose email or username is held by a user when
\* the request comes to write is answered 400 and creates no user, also
\* when another register request took the email or username after this one
\* had looked the users table up; otherwise it is answered 201 and the user
\* exists.
C22_RegisterConflict ==
    [][\A r \in pending :
          RegisterCreate(r)
              => IF existingUser(r.body.email, r.body.username)
                 THEN res'.code = 400 /\ users' = users
                 ELSE res'.code = 201 /\ r.body.email \in DOMAIN users']_vars

(***************************************************************************)
(* SpecAdmin: the category, subcategory and user routes called by every    *)
(* role, while an administrator promotes and demotes the supervisor.       *)
(***************************************************************************)
AdminCallers == {"a1", "s1", "o1", "u1"}

WaterBody == [name |-> "Water", color |-> "#0000FF"]
CrackBody == [name |-> "Crack", categoryId |-> "c1"]
ClerkBody == [email |-> "n1", username |-> "m1", role |-> "SUPERVISOR"]
PromoteBodies == {[role |-> "ADMIN"], [role |-> "SUPERVISOR"]}

AdminNext ==
    \/ \E c \in AdminCallers :
          /\ pending = {} /\ "c3" \notin DOMAIN categories
          /\ CreateCategoryFind(c, WaterBody)
    \/ \E r \in pending : CreateCategoryCreate(r)
    \/ \E c \in AdminCallers :
          pending = {} /\ UpdateCategoryFind(c, "c1", [name |-> "Light"])
    \/ \E r \in pending : UpdateCategoryUpdate(r)
    \/ \E c \in AdminCallers : DeleteCategory(c, "c2")
    \/ \E c \in AdminCallers :
          (SubcategoryIds \ DOMAIN subcategories # {}) /\ CreateSubcategory(c, CrackBody)
    \/ \E c \in AdminCallers : UpdateSubcategory(c, "sc3", [name |-> "Kerb"])
    \/ \E c \in AdminCallers : DeleteSubcategory(c, "sc1")
    \/ \E c \in AdminCallers : CreateUser(c, ClerkBody)
    \/ \E c \in AdminCallers, body \in PromoteBodies : UpdateUser(c, "s1", body)
    \/ \E c \in AdminCallers : DeleteUser(c, "u2")
    \/ \E c \in AdminCallers : GetAllUsers(c)
    \/ \E c \in AdminCallers, id \in {"u1", "u2"} : GetUserById(c, id)

SpecAdmin == Init /\ [][AdminNext]_vars

\* The request of an authenticated caller that is not an ADMIN was answered
\* 403 and wrote nothing.
RefusedAsNonAdmin ==
    /\ res'.code = 403
    /\ UNCHANGED <<users, categories, subcategories, pending>>

\* C24: a category, subcategory or user create/update/delete request by an
\* authenticated caller whose current role is USER, SUPERVISOR or OFFICE is
\* answered 403 and no category, subcategory or user record is created,
\* changed or removed; these records change only in requests that passed
\* adminOnly as an ADMIN; getAllUsers is answered 200 exactly for
\* SUPERVISOR, OFFICE and ADMIN callers; and getUserById by a USER is
\* answered 200 only for the caller's own id.
C24_AdminOnlyWrites ==
    [][/\ \A c \in AdminCallers :
             (res'.user = c /\ authenticate(c) /\ users[c].role # "ADMIN")
                 => /\ (res'.op = "createCategory" /\ CreateCategoryFind(c, WaterBody))
                          => RefusedAsNonAdmin
                    /\ (/\ res'.op = "updateCategory"
                        /\ UpdateCategoryFind(c, "c1", [name |-> "Light"]))
                          => RefusedAsNonAdmin
                    /\ (res'.op = "deleteCategory" /\ DeleteCategory(c, "c2"))
                          => RefusedAsNonAdmin
                    /\ (res'.op = "createSubcategory" /\ CreateSubcategory(c, CrackBody))
                          => RefusedAsNonAdmin
                    /\ (/\ res'.op = "updateSubcategory"
                        /\ UpdateSubcategory(c, "sc3", [name |-> "Kerb"]))
                          => RefusedAsNonAdmin
                    /\ (res'.op = "deleteSubcategory" /\ DeleteSubcategory(c, "sc1"))
                          => RefusedAsNonAdmin
                    /\ (res'.op = "createUser" /\ CreateUser(c, ClerkBody))
                          => RefusedAsNonAdmin
                    /\ \A body \in PromoteBodies :
                          (res'.op = "updateUser" /\ UpdateUser(c, "s1", body))
                              => RefusedAsNonAdmin
                    /\ (res'.op = "deleteUser" /\ DeleteUser(c, "u2"))
                          => RefusedAsNonAdmin
       /\ \A r \in pending' \ pending : users[r.c].role = "ADMIN"
       /\ (users' # users \/ categories' # categories \/ subcategories' # subcategories)
             => \/ pending' # pending
                \/ res'.user \in DOMAIN users /\ users[res'.user].role = "ADMIN"
       /\ \A c \in AdminCallers :
             (res'.op = "getAllUsers" /\ res'.user = c /\ authenticate(c) /\ GetAllUsers(c))
                 => (res'.code = 200 <=> users[c].role \in {"SUPERVISOR", "OFFICE", "ADMIN"})
       /\ \A c \in AdminCallers, id \in {"u1", "u2"} :
             (/\ res'.op = "getUserById" /\ res'.user = c
              /\ authenticate(c) /\ users[c].role = "USER" /\ GetUserById(c, id))
                 => (res'.code = 200 => id = c)]_vars

\* The supervisor, promoted to ADMIN, created a user and was then demoted;
\* the supervisor's next deleteCategory was answered 403 and the category
\* is still active.
C24_Witness ==
    /\ res.op = "deleteCategory" /\ res.code = 403 /\ res.user = "s1"
    /\ users["s1"].role = "SUPERVISOR"
    /\ "n1" \in DOMAIN users
    /\ categories["c2"].isActive

(***************************************************************************)
(* SpecComments: an issue with public and internal comments, read through  *)
(* getIssueById by every role, while the citizen who filed it is promoted  *)
(* and demoted.                                                            *)
(***************************************************************************)
MaxCommentIssues == 1

CommentNext ==
    \/ nextIssue <= MaxCommentIssues /\ CreateIssue("u1", BasicBody)
    \/ \E author \in {"s1", "u1"}, id \in 1..MaxCommentIssues, isInternal \in BOOLEAN :
          InsertComment(author, id, isInternal)
    \/ \E c \in DOMAIN SeedUsers, id \in 1..MaxCommentIssues : GetIssueById(c, id)
    \/ \E body \in PromoteBodies \cup {[role |-> "USER"]} : UpdateUser("a1", "u1", body)

SpecComments == Init /\ [][CommentNext]_vars

\* C25: a getIssueById answer to a caller whose role is USER holds the
\* issue's comments that are not internal and no comment whose isInternal
\* is true; an answer to a SUPERVISOR, OFFICE or ADMIN caller holds all
\* comments of the issue.
C25_InternalCommentsHidden ==
    [][\A c \in DOMAIN SeedUsers, id \in 1..MaxCommentIssues :
          (/\ res'.op = "getIssueById" /\ res'.user = c /\ res'.code = 200
           /\ GetIssueById(c, id))
              => LET got == res'.data[2]
                     all == {m \in comments : m.issueId = id}
                 IN  IF users[c].role = "USER"
                     THEN /\ \A m \in got : ~m.isInternal
                          /\ got = {m \in all : ~m.isInternal}
                     ELSE got = all]_vars

\* The citizen read the own issue, which carries an internal and a public
\* comment, and the answer holds exactly one comment.
C25_Witness ==
    /\ res.op = "getIssueById" /\ res.code = 200 /\ res.user = "u1"
    /\ users["u1"].role = "USER"
    /\ \E m \in comments : m.issueId = res.id /\ m.isInternal
    /\ \E m \in comments : m.issueId = res.id /\ ~m.isInternal
    /\ Cardinality(res.data[2]) = 1

(***************************************************************************)
(* SpecStamp: updateIssue requests, each in two steps, on an issue whose   *)
(* status a supervisor moves to and from COMPLETED while the clock         *)
(* advances; the citizen who filed it asks for COMPLETED too.              *)
(***************************************************************************)
MaxStampIssues == 1

StampBodies == {[status |-> "COMPLETED"], [status |-> "IN_PROGRESS"]}

StampNext ==
    \/ nextIssue <= MaxStampIssues /\ CreateIssue("u1", BasicBody)
    \/ \E id \in 1..MaxStampIssues, body \in StampBodies :
          (\A r \in pending : r.body # body) /\ UpdateIssueFind("s1", id, body)
    \/ \E id \in 1..MaxStampIssues :
          pending = {} /\ UpdateIssueFind("u1", id, [status |-> "COMPLETED"])
    \/ \E id \in 1..MaxStampIssues :
          pending = {} /\ UpdateIssueFind("s1", id, [priority |-> "HIGH"])
    \/ \E r \in pending : UpdateIssueUpdate(r)
    \/ issues # <<>> /\ Tick

SpecStamp == Init /\ [][StampNext]_vars

\* C26: an updateIssue that read the issue as COMPLETED and whose filtered
\* payload has no status or has status COMPLETED leaves the issue's
\* completedAt as it was; and an issue's completedAt changes only in the
\* write of an updateIssue whose filtered payload sets status COMPLETED
\* and that read the issue in another status.  New issues have no
\* completedAt.
C26_CompletedAtWrittenOnce ==
    [][/\ \A r \in pending :
             (/\ res'.op = "updateIssue"
              /\ UpdateIssueUpdate(r)
              /\ r.id \in DOMAIN issues
              /\ r.currentIssue.status = "COMPLETED"
              /\ Has(r.data, "status") => r.data.status = "COMPLETED")
                 => issues'[r.id].completedAt = issues[r.id].completedAt
       /\ \A i \in (DOMAIN issues) \cap (DOMAIN issues') :
             issues'[i].completedAt # issues[i].completedAt
                 => \E r \in pending \ pending' :
                       /\ r.op = "updateIssue" /\ r.id = i
                       /\ Has(r.data, "status") /\ r.data.status = "COMPLETED"
                       /\ r.currentIssue.status # "COMPLETED"
       /\ \A i \in (DOMAIN issues') \ (DOMAIN issues) :
             issues'[i].completedAt = None]_vars

\* The issue was completed at time 1; at a later time a supervisor's
\* request to set COMPLETED again was answered 200, and completedAt is
\* still 1.
C26_Witness ==
    /\ res.op = "updateIssue" /\ res.code = 200 /\ res.user = "s1"
    /\ res.req = [status |-> "COMPLETED"]
    /\ now > 1
    /\ res.id \in DOMAIN issues
    /\ issues[res.id].status = "COMPLETED"
    /\ issues[res.id].completedAt = Some(1)

(***************************************************************************)
(* SpecStatus: created and imported issues whose status every role asks to *)
(* change to every value.                                                  *)
(***************************************************************************)
MaxStatusIssues == 1

StatusNext ==
    \/ nextIssue <= MaxStatusIssues /\ CreateIssue("u1", BasicBody)
    \/ nextIssue <= MaxStatusIssues
          /\ ImportIssues("a1", Some(<<ImportHeader, ImportRowOk>>))
    \/ \E c \in AdminCallers, id \in 1..MaxStatusIssues, s \in IssueStatus :
          UpdateIssue(c, id, [status |-> s])

SpecStatus == Init /\ [][StatusNext]_vars

\* C27: updateIssue by a SUPERVISOR, OFFICE or ADMIN caller on an existing
\* issue with any of the five status values is answered 200 and the stored
\* status is the supplied value, whatever the status was; and every issue
\* that createIssue or importIssues adds has status PENDING.
C27_NoTransitionRefused ==
    [][/\ \A c \in {"a1", "s1", "o1"}, id \in DOMAIN issues, s \in IssueStatus :
             (/\ res'.op = "updateIssue" /\ res'.user = c /\ res'.id = id
              /\ res'.req = [status |-> s]
              /\ UpdateIssue(c, id, [status |-> s]))
                 => /\ res'.code = 200
                    /\ issues'[id].status = s
       /\ \A i \in (DOMAIN issues') \ (DOMAIN issues) :
             issues'[i].status = "PENDING"]_vars

\* An imported issue that was completed has been moved back to PENDING by
\* the office user.
C27_Witness ==
    /\ res.op = "updateIssue" /\ res.code = 200 /\ res.user = "o1"
    /\ res.req = [status |-> "PENDING"]
    /\ issues[res.id].status = "PENDING"
    /\ issues[res.id].completedAt # None
    /\ issues[res.id].createdById = "a1"

(***************************************************************************)
(* SpecTaxonomy: issues filed with and without a subcategory, whose        *)
(* category and subcategory staff then change.                             *)
(***************************************************************************)
MaxTaxonomyIssues == 2

TaxonomyCreates ==
    {BasicBody,
     [BasicBody EXCEPT !.categoryId = "c2"] @@ [subcategoryId |-> "sc2"],
     BasicBody @@ [subcategoryId |-> "sc1"],
     BasicBody @@ [subcategoryId |-> "sc2"]}

TaxonomyUpdates ==
    {[categoryId |-> k] : k \in {"c1", "c2"}}
        \cup {[subcategoryId |-> k] : k \in {"sc1", "sc2"}}

TaxonomyNext ==
    \/ \E body \in TaxonomyCreates :
          nextIssue <= MaxTaxonomyIssues /\ CreateIssue("u1", body)
    \/ \E c \in {"s1", "u1"}, id \in 1..MaxTaxonomyIssues, body \in TaxonomyUpdates :
          UpdateIssue(c, id, body)

SpecTaxonomy == Init /\ [][TaxonomyNext]_vars

\* C28: every issue whose subcategoryId is set references a subcategory
\* that belongs to the issue's own category.
C28_SubcategoryOfOwnCategory ==
    \A i \in DOMAIN issues :
        issues[i].subcategoryId # Null
            => /\ issues[i].subcategoryId \in DOMAIN subcategories
               /\ subcategories[issues[i].subcategoryId].categoryId = issues[i].categoryId

(***************************************************************************)
(* SpecNames: an administrator's createCategory and updateCategory         *)
(* requests, each in two steps, so that two of them may both have read the *)
(* categories table before either writes.                                  *)
(***************************************************************************)
NameBodies == {WaterBody, [WaterBody EXCEPT !.name = "Roads"]}

RenameBodies == {[name |-> "Water"], [name |-> "Light"]}

NamesNext ==
    \/ \E body \in NameBodies :
          /\ Cardinality(pending) < MaxPending
          /\ Cardinality({r \in pending : r.op = "createCategory"})
                < Cardinality(CategoryIds \ DOMAIN categories)
          /\ CreateCategoryFind("a1", body)
    \/ \E r \in pending : CreateCategoryCreate(r)
    \/ \E id \in {"c1", "c2"}, body \in RenameBodies :
          Cardinality(pending) < MaxPending /\ UpdateCategoryFind("a1", id, body)
    \/ \E r \in pending : UpdateCategoryUpdate(r)
    \/ DeleteCategory("a1", "c2")

SpecNames == Init /\ [][NamesNext]_vars

\* C29: in every reachable state no two active categories have the same
\* name, also when createCategory and updateCategory requests overlap.
C29_ActiveNamesUnique ==
    \A j, k \in DOMAIN categories :
        (/\ categories[j].isActive /\ categories[k].isActive
         /\ categories[j].name = categories[k].name)
            => j = k

(***************************************************************************)
(* SpecRoles: who can give a user a role: registrations that ask for a     *)
(* role, and createUser, updateUser and updateProfile by every caller,     *)
(* the newly registered user among them.                                   *)
(***************************************************************************)
RoleCallers == {"a1", "s1", "u1", "n2"}

AmbitiousBody == [email |-> "n2", username |-> "m2", role |-> "ADMIN"]

RolesNext ==
    \/ pending = {} /\ RegisterStart(AmbitiousBody)
    \/ \E r \in pending : RegisterCreate(r)
    \/ \E c \in RoleCallers : CreateUser(c, ClerkBody)
    \/ \E c \in RoleCallers, id \in {"n2", "s1"}, body \in PromoteBodies :
          UpdateUser(c, id, body)
    \/ \E c \in RoleCallers : UpdateProfile(c, [role |-> "ADMIN"])

SpecRoles == Init /\ [][RolesNext]_vars

\* C30: the user a register request creates has role USER whatever the
\* body carries; and a user appears with a staff role, or a user's role
\* changes to a staff role, only in a createUser or updateUser request
\* whose caller has role ADMIN when the request is made.
C30_RolesOnlyFromAdmin ==
    [][/\ \A r \in pending :
             (res'.op = "register" /\ res'.code = 201 /\ RegisterCreate(r))
                 => users'[r.body.email].role = "USER"
       /\ \A u \in DOMAIN users' :
             (/\ users'[u].role # "USER"
              /\ u \in DOMAIN users => users'[u].role # users[u].role)
                 => /\ res'.op \in {"createUser", "updateUser"}
                    /\ res'.user \in DOMAIN users
                    /\ users[res'.user].role = "ADMIN"]_vars

\* A user who registered with role ADMIN in the body is a USER, and that
\* user's updateUser request for the ADMIN role on the own record was
\* answered 403.
C30_Witness ==
    /\ res.op = "updateUser" /\ res.code = 403 /\ res.user = "n2" /\ res.id = "n2"
    /\ res.req = [role |-> "ADMIN"]
    /\ "n2" \in DOMAIN users /\ users["n2"].role = "USER"

====
